---- MODULE Spec2Model ----
(***************************************************************************)
(* A model of django-appsettings: the setting descriptors of               *)
(* appsettings/settings.py (raw_value, default_value, get_value, validate, *)
(* run_validators, check, transform, decode_environ), the validators of    *)
(* appsettings/validators.py and the settings group of                     *)
(* appsettings/__init__.py (registry, per-instance cache, the handlers of  *)
(* the setting_changed signal).                                            *)
(*                                                                         *)
(* Python values are tagged records; names and keys are sequences of       *)
(* one-character strings so that str.upper() is computed, not assumed.     *)
(***************************************************************************)
EXTENDS Integers, Sequences, FiniteSets, TLC

VARIABLES
    environ,            \* os.environ: key -> string
    conf,               \* django.conf.settings: key -> value
    overrides,          \* stack of active override_settings contexts
    live,               \* the AppSettings instances that exist
    cache,              \* instance -> its _cache dict (item -> value)
    required,           \* descriptor -> its required attribute
    dflt,               \* descriptor -> default, call_default, transform_default
    validators,         \* descriptor -> its validators list
    hook,               \* descriptor -> which validate() method its class has
    nested_list_index,  \* descriptor -> its nested_list_index attribute
    frame,              \* thread -> where its read of a nested list stands
    res                 \* what the last operation did and returned or raised

vars == <<environ, conf, overrides, live, cache, required, dflt, validators,
          hook, nested_list_index, frame, res>>

-----------------------------------------------------------------------------
(* Bounds of the model.                                                    *)

MaxLen == 2          \* longest raw sequence given to a nested-list setting
MaxValidators == 2   \* longest list of additional validators
MaxRequired == 1     \* how many descriptors are required at the same time
MaxOverrides == 2    \* override_settings contexts nested at the same time
MaxInstances == 1    \* AppSettings instances alive at the same time
MaxPath == 3         \* most segments of a dotted path
MaxAttrs == 2        \* most attributes of a class body, Meta aside
MaxThreads == 2      \* threads, each with an AppSettings instance of its own

-----------------------------------------------------------------------------
(* Python values.                                                          *)

None == [t |-> "none"]
PyInt(n) == [t |-> "int", n |-> n]
PyStr(s) == [t |-> "str", s |-> s]
PyBool(b) == [t |-> "bool", b |-> b]
PyList(items) == [t |-> "list", items |-> items]
PyTuple(items) == [t |-> "tuple", items |-> items]
PyDict(d) == [t |-> "dict", d |-> d]
PyPath(p) == [t |-> "path", p |-> p]
\* a zero-argument callable (lambda: ret)
Callable(ret) == [t |-> "callable", ret |-> ret]

\* the outcome of a call: a returned value or a raised exception
Ok(v) == [st |-> "ok", val |-> v]
Raise(exc, msg) == [st |-> "raise", exc |-> exc, msg |-> msg]

Range(seq) == {seq[k] : k \in DOMAIN seq}

\* str.upper() on the alphabet the names are written in
LowerAlpha == <<"a", "b", "c", "d", "f", "i", "l", "n", "o", "p", "s", "u", "v">>
UpperAlpha == <<"A", "B", "C", "D", "F", "I", "L", "N", "O", "P", "S", "U", "V">>

UpperChar(c) ==
    IF \E k \in DOMAIN LowerAlpha : LowerAlpha[k] = c
    THEN UpperAlpha[CHOOSE k \in DOMAIN LowerAlpha : LowerAlpha[k] = c]
    ELSE c

Upper(str) == [k \in DOMAIN str |-> UpperChar(str[k])]

-----------------------------------------------------------------------------
(* The settings group of the model and its class body.                     *)
(*                                                                         *)
(*   class AppConf(AppSettings):                                           *)
(*       s = Setting()                                                     *)
(*       f = FileSetting()                                                 *)
(*       v = Setting(validators=...)                                       *)
(*       nd = NestedDictSetting(settings=dict(                             *)
(*           a=BooleanSetting(default=False),                              *)
(*           b=BooleanSetting(name="c", default=True)))                    *)
(*       nl = NestedListSetting(name="nl", default=[],                     *)
(*                              inner_setting=IntegerSetting())            *)
(*       ul = NestedListSetting(inner_setting=IntegerSetting())            *)
(*       class Meta:                                                       *)
(*           setting_prefix = "p"                                          *)
(*                                                                         *)
(*   and, outside of any group,                                            *)
(*                                                                         *)
(*   ll = NestedListSetting(name="ll", default=[],                         *)
(*       inner_setting=NestedListSetting(inner_setting=FileSetting()))     *)
(*   o = ObjectSetting(name="o")                                           *)
(*   cp = CallablePathSetting(name="cp")                                   *)
(*   bo = BooleanSetting(name="bo")                                        *)
(*   dd = DictSetting(name="dd")                                           *)
(*   da = DictSetting(name="da", empty=True)                               *)
(*   dn = DictSetting(name="dn", empty=False)                              *)
(***************************************************************************)

Desc == {"s", "f", "v", "nd", "a", "b", "nl", "i", "ul", "ui", "ll", "li", "lj",
         "o", "cp", "bo", "dd", "da", "dn"}

NoDesc == "-"

\* the class of each descriptor
Cls(d) ==
    CASE d = "s" -> "Setting"
      [] d = "f" -> "FileSetting"
      [] d = "v" -> "Setting"
      [] d = "nd" -> "NestedDictSetting"
      [] d = "a" -> "BooleanSetting"
      [] d = "b" -> "BooleanSetting"
      [] d = "nl" -> "NestedListSetting"
      [] d = "i" -> "IntegerSetting"
      [] d = "ul" -> "NestedListSetting"
      [] d = "ui" -> "IntegerSetting"
      [] d = "ll" -> "NestedListSetting"
      [] d = "li" -> "NestedListSetting"
      [] d = "lj" -> "FileSetting"
      [] d = "o" -> "ObjectSetting"
      [] d = "cp" -> "CallablePathSetting"
      [] d = "bo" -> "BooleanSetting"
      [] d = "dd" -> "DictSetting"
      [] d = "da" -> "DictSetting"
      [] d = "dn" -> "DictSetting"

\* the name argument of each constructor call ("" when not given)
ArgName(d) ==
    CASE d = "b" -> <<"c">>
      [] d = "nl" -> <<"n", "l">>
      [] d = "ll" -> <<"l", "l">>
      [] d = "o" -> <<"o">>
      [] d = "cp" -> <<"c", "p">>
      [] d = "bo" -> <<"b", "o">>
      [] d = "dd" -> <<"d", "d">>
      [] d = "da" -> <<"d", "a">>
      [] d = "dn" -> <<"d", "n">>
      [] OTHER -> <<>>

\* the default argument of each constructor call, or the class's own
ArgDefault(d) ==
    CASE d = "a" -> PyBool(FALSE)
      [] d = "b" -> PyBool(TRUE)
      [] d = "nl" -> PyList(<<>>)
      [] d = "ll" -> PyList(<<>>)
      [] d = "ui" -> PyInt(0)
      [] d = "nd" -> Callable(PyDict(<<>>))
      [] d = "i" -> PyInt(0)
      [] d = "bo" -> PyBool(TRUE)
      [] Cls(d) = "DictSetting" -> Callable(PyDict(<<>>))
      [] OTHER -> None

\* the empty argument of each constructor call (None when not given)
ArgEmpty(d) ==
    CASE d = "da" -> PyBool(TRUE)
      [] d = "dn" -> PyBool(FALSE)
      [] OTHER -> None

\* NestedDictSetting.settings, in the order of the dict: <<key, descriptor>>
SubSettings(d) ==
    IF d = "nd" THEN << <<<<"a">>, "a">>, <<<<"b">>, "b">> >>
    ELSE <<>>

\* NestedListSetting.inner_setting
InnerSetting(d) ==
    CASE d = "nl" -> "i"
      [] d = "ul" -> "ui"
      [] d = "ll" -> "li"
      [] d = "li" -> "lj"
      [] OTHER -> NoDesc

\* the class body: attribute name -> descriptor, in the order of the body
ClassBody ==
    << <<<<"s">>, "s">>, <<<<"f">>, "f">>,
       <<<<"v">>, "v">>, <<<<"n", "d">>, "nd">>,
       <<<<"n", "l">>, "nl">>, <<<<"u", "l">>, "ul">> >>

\* Meta.setting_prefix
SettingPrefix == <<"p">>

\* _meta.settings: the registry built from the class body
settings == ClassBody

Items == {settings[k][1] : k \in DOMAIN settings}

SettingOf(item) ==
    settings[CHOOSE k \in DOMAIN settings : settings[k][1] = item][2]

TopLevel == {settings[k][2] : k \in DOMAIN settings}

\* parent_setting, as set by the composites' constructors
ParentOf ==
    [d \in Desc |->
        IF \E p \in Desc : \E k \in DOMAIN SubSettings(p) : SubSettings(p)[k][2] = d
        THEN CHOOSE p \in Desc : \E k \in DOMAIN SubSettings(p) : SubSettings(p)[k][2] = d
        ELSE IF \E p \in Desc : InnerSetting(p) = d
        THEN CHOOSE p \in Desc : InnerSetting(p) = d
        ELSE NoDesc]

Parent(d) == ParentOf[d]

NestedDictClasses == {"NestedDictSetting", "NestedSetting"}

\* the name after the constructors and the metaclass have run
NameOf ==
    [d \in Desc |->
        IF ArgName(d) # <<>> THEN ArgName(d)
        ELSE IF Parent(d) # NoDesc /\ Cls(Parent(d)) \in NestedDictClasses
        THEN LET k == CHOOSE k \in DOMAIN SubSettings(Parent(d)) :
                          SubSettings(Parent(d))[k][2] = d
             IN  SubSettings(Parent(d))[k][1]
        ELSE IF Parent(d) # NoDesc
        THEN ArgName(Parent(d))
        ELSE LET k == CHOOSE k \in DOMAIN settings : settings[k][2] = d
             IN  settings[k][1]]

Name(d) == NameOf[d]

\* the prefix after the metaclass has run
Prefix(d) == IF d \in TopLevel THEN SettingPrefix ELSE <<>>

\* Setting.full_name
FullNameOf == [d \in Desc |-> Upper(Prefix(d)) \o Upper(Name(d))]

full_name(d) == FullNameOf[d]

-----------------------------------------------------------------------------
(* Python's container protocol, as far as the descriptors use it.          *)

TypeError == Raise("TypeError", [fmt |-> "type_error"])

\* container[key] for a string key
GetItem(container, key) ==
    IF container.t = "dict"
    THEN IF key \in DOMAIN container.d
         THEN Ok(container.d[key])
         ELSE Raise("KeyError", [fmt |-> "key", item |-> key])
    ELSE TypeError

\* sequence[index] for a position; index is None or an int
GetIndex(container, index) ==
    IF container.t \in {"list", "tuple"}
    THEN IF index.t # "int"
         THEN TypeError
         ELSE LET n == Len(container.items)
                  k == IF index.n < 0 THEN index.n + n ELSE index.n
              IN  IF k >= 0 /\ k < n
                  THEN Ok(container.items[k + 1])
                  ELSE Raise("IndexError", [fmt |-> "index_out_of_range"])
    ELSE IF container.t = "dict"
    THEN Raise("KeyError", [fmt |-> "key", index |-> index])
    ELSE IF container.t = "str"
    THEN IF index.t # "int"
         THEN TypeError
         ELSE LET n == Len(container.s)
                  k == IF index.n < 0 THEN index.n + n ELSE index.n
              IN  IF k >= 0 /\ k < n
                  THEN Ok(PyStr(<<container.s[k + 1]>>))
                  ELSE Raise("IndexError", [fmt |-> "index_out_of_range"])
    ELSE TypeError

\* iter(value): the items a for loop visits, or TypeError
Iter(value) ==
    IF value.t \in {"list", "tuple"} THEN Ok(value.items)
    ELSE IF value.t = "str"
    THEN Ok([k \in DOMAIN value.s |-> PyStr(<<value.s[k]>>)])
    ELSE IF value.t = "dict"
    THEN LET keys == DOMAIN value.d
             order == CHOOSE q \in [1..Cardinality(keys) -> keys] :
                          \A x \in keys : \E k \in DOMAIN q : q[k] = x
         IN  Ok([k \in DOMAIN order |-> PyStr(order[k])])
    ELSE TypeError

\* isinstance(value, type); bool is a subclass of int
IsInstance(value, type) ==
    \/ value.t = type
    \/ type = "int" /\ value.t = "bool"

\* callable(value)
IsCallable(value) == value.t = "callable"

\* not value
Falsy(value) ==
    \/ value.t = "none"
    \/ value.t = "int" /\ value.n = 0
    \/ value.t = "bool" /\ ~value.b
    \/ value.t = "str" /\ value.s = <<>>
    \/ value.t \in {"list", "tuple"} /\ value.items = <<>>
    \/ value.t = "dict" /\ DOMAIN value.d = {}

\* str.split(sep) for a one-character separator: the pieces between the
\* separators, the empty ones included
RECURSIVE SplitFrom(_, _, _, _)
SplitFrom(str, sep, k, piece) ==
    IF k > Len(str) THEN <<piece>>
    ELSE IF str[k] = sep THEN <<piece>> \o SplitFrom(str, sep, k + 1, <<>>)
    ELSE SplitFrom(str, sep, k + 1, Append(piece, str[k]))

Split(str, sep) == SplitFrom(str, sep, 1, <<>>)

\* str.split(sep, maxsplit) for a one-character separator
RECURSIVE SplitAtMostFrom(_, _, _, _, _)
SplitAtMostFrom(str, sep, maxsplit, k, piece) ==
    IF k > Len(str) THEN <<piece>>
    ELSE IF str[k] = sep /\ maxsplit > 0
    THEN <<piece>> \o SplitAtMostFrom(str, sep, maxsplit - 1, k + 1, <<>>)
    ELSE SplitAtMostFrom(str, sep, maxsplit, k + 1, Append(piece, str[k]))

SplitAtMost(str, sep, maxsplit) == SplitAtMostFrom(str, sep, maxsplit, 1, <<>>)

\* str.split(None): the pieces between the runs of whitespace, none empty
SplitWhitespace(str) == SelectSeq(Split(str, " "), LAMBDA piece : piece # <<>>)

\* len(value)
PyLen(value) ==
    IF value.t \in {"list", "tuple"} THEN Ok(Len(value.items))
    ELSE IF value.t = "str" THEN Ok(Len(value.s))
    ELSE IF value.t = "dict" THEN Ok(Cardinality(DOMAIN value.d))
    ELSE TypeError

\* sep.join(parts)
RECURSIVE Join(_, _)
Join(parts, sep) ==
    IF parts = <<>> THEN <<>>
    ELSE IF Len(parts) = 1 THEN parts[1]
    ELSE parts[1] \o <<sep>> \o Join(Tail(parts), sep)

\* What can be imported: the package t with its module t.m, which defines
\* a function f, a dict k and a class c with a static method f.
Modules == {<< <<"t">> >>, << <<"t">>, <<"m">> >>}

Attributes ==
    {<< <<"t">>, <<"m">> >>,
     << <<"t">>, <<"m">>, <<"f">> >>,
     << <<"t">>, <<"m">>, <<"k">> >>,
     << <<"t">>, <<"m">>, <<"c">> >>,
     << <<"t">>, <<"m">>, <<"c">>, <<"f">> >>}

Callables ==
    {<< <<"t">>, <<"m">>, <<"f">> >>,
     << <<"t">>, <<"m">>, <<"c">> >>,
     << <<"t">>, <<"m">>, <<"c">>, <<"f">> >>}

\* what calling the object at path returns
Returns(path) ==
    IF path = << <<"t">>, <<"m">>, <<"f">> >>
    THEN PyStr(Join(<< <<"t">>, <<"m">>, <<"c">>, <<"f">> >>, "."))
    ELSE None

\* the object found at path
PyObject(path) ==
    IF path = << <<"t">>, <<"m">>, <<"k">> >> THEN PyDict(<<>>)
    ELSE IF path \in Callables
    THEN [t |-> "callable", ret |-> Returns(path), path |-> path]
    ELSE [t |-> "object", path |-> path]

\* importlib.import_module(name)
import_module(name) ==
    IF name = <<>>
    THEN Raise("ValueError", [fmt |-> "empty_module_name"])
    ELSE IF Split(name, ".") \in Modules
    THEN Ok(PyObject(Split(name, ".")))
    ELSE Raise("ImportError", [fmt |-> "no_module_named", name |-> name])

\* getattr(object, name)
getattr(object, name) ==
    IF "path" \in DOMAIN object /\ Append(object.path, name) \in Attributes
    THEN Ok(PyObject(Append(object.path, name)))
    ELSE Raise("AttributeError", [fmt |-> "has_no_attribute", attr |-> name])

-----------------------------------------------------------------------------
(* appsettings/settings.py: the descriptors.                               *)

NotFound == {"AttributeError", "KeyError"}

\* json.loads on the strings the environment of the model holds
JsonLoads(str) ==
    CASE str = <<"0">> -> Ok(PyInt(0))
      [] str = <<"1">> -> Ok(PyInt(1))
      [] str = <<"2">> -> Ok(PyInt(2))
      [] str = <<"t", "r", "u", "e">> -> Ok(PyBool(TRUE))
      [] str = <<"f", "a", "l", "s", "e">> -> Ok(PyBool(FALSE))
      [] str = <<"n", "u", "l", "l">> -> Ok(None)
      [] str = <<"[", "]">> -> Ok(PyList(<<>>))
      [] str = <<"{", "}">> -> Ok(PyDict(<<>>))
      [] OTHER -> Raise("JSONDecodeError", [fmt |-> "json"])

\* str.lower() on the characters of the boolean words
LowerChar(c) ==
    CASE c = "T" -> "t" [] c = "R" -> "r" [] c = "U" -> "u" [] c = "E" -> "e"
      [] c = "F" -> "f" [] c = "A" -> "a" [] c = "L" -> "l" [] c = "S" -> "s"
      [] c = "Y" -> "y" [] c = "N" -> "n" [] c = "O" -> "o"
      [] OTHER -> c

Lower(str) == [k \in DOMAIN str |-> LowerChar(str[k])]

\* the dict comprehension of DictSetting.decode_environ: "for k, v in"
\* unpacks each of the split parts
RECURSIVE DictOfPairs(_, _, _)
DictOfPairs(pairs, k, acc) ==
    IF k > Len(pairs) THEN Ok(PyDict(acc))
    ELSE IF Len(pairs[k]) # 2
    THEN Raise("ValueError", [fmt |-> "unpack", got |-> Len(pairs[k])])
    ELSE DictOfPairs(pairs, k + 1, (pairs[k][1] :> PyStr(pairs[k][2])) @@ acc)

\* DictSetting.decode_environ with outer_delimiter=None, inner_delimiter="="
\* and neither key_type nor value_type
DictSettingDecodeEnviron(value) ==
    IF JsonLoads(value).st = "ok" THEN JsonLoads(value)
    ELSE DictOfPairs([k \in DOMAIN SplitWhitespace(value) |->
                         SplitAtMost(SplitWhitespace(value)[k], "=", 2)], 1, <<>>)

\* IterableSetting.decode_environ with delimiter=":" and no item_type
IterableSettingDecodeEnviron(value) ==
    IF JsonLoads(value).st = "ok" THEN JsonLoads(value)
    ELSE Ok(PyList([k \in DOMAIN Split(value, ":") |-> PyStr(Split(value, ":")[k])]))

\* BooleanSetting.decode_environ that compares the string as it is
decode_environ_case_sensitive(d, value) ==
    IF Cls(d) = "BooleanSetting"
    THEN IF value \in {<<"t", "r", "u", "e">>, <<"y", "e", "s">>, <<"1">>}
         THEN Ok(PyBool(TRUE))
         ELSE IF value \in {<<"f", "a", "l", "s", "e">>, <<"n", "o">>, <<"0">>}
         THEN Ok(PyBool(FALSE))
         ELSE Raise("ValueError",
                    [fmt |-> "invalid_boolean", name |-> full_name(d), value |-> value])
    ELSE JsonLoads(value)

\* decode_environ, by class
decode_environ(d, value) ==
    IF Cls(d) = "BooleanSetting"
    THEN IF Lower(value) \in {<<"t", "r", "u", "e">>, <<"y", "e", "s">>, <<"1">>}
         THEN Ok(PyBool(TRUE))
         ELSE IF Lower(value) \in {<<"f", "a", "l", "s", "e">>, <<"n", "o">>, <<"0">>}
         THEN Ok(PyBool(FALSE))
         ELSE Raise("ValueError",
                    [fmt |-> "invalid_boolean", name |-> full_name(d), value |-> value])
    ELSE IF Cls(d) \in {"StringSetting", "ObjectSetting", "CallablePathSetting"}
    THEN IF JsonLoads(value).st = "ok" THEN JsonLoads(value) ELSE Ok(PyStr(value))
    ELSE IF Cls(d) \in {"DictSetting"} \cup NestedDictClasses
    THEN DictSettingDecodeEnviron(value)
    ELSE IF Cls(d) = "NestedListSetting"
    THEN IterableSettingDecodeEnviron(value)
    ELSE JsonLoads(value)

RECURSIVE raw_value(_, _)

\* raw_value that looks up the environment before the owning composite
raw_value_environ_first(d, idx) ==
    IF full_name(d) \in DOMAIN environ
    THEN decode_environ(d, environ[full_name(d)])
    ELSE IF Parent(d) # NoDesc /\ Cls(Parent(d)) \in NestedDictClasses
    THEN LET pr == raw_value(Parent(d), idx)
         IN  IF pr.st = "raise" THEN pr ELSE GetItem(pr.val, full_name(d))
    ELSE IF Parent(d) # NoDesc /\ Cls(Parent(d)) = "NestedListSetting"
    THEN LET pr == raw_value(Parent(d), idx)
         IN  IF pr.st = "raise" THEN pr ELSE GetIndex(pr.val, idx[d])
    ELSE IF full_name(d) \in DOMAIN conf
    THEN Ok(conf[full_name(d)])
    ELSE Raise("AttributeError", [fmt |-> "no_attribute", name |-> full_name(d)])

\* raw_value that prefers the primary store to the environment
raw_value_store_first(d, idx) ==
    IF Parent(d) # NoDesc /\ Cls(Parent(d)) \in NestedDictClasses
    THEN LET pr == raw_value(Parent(d), idx)
         IN  IF pr.st = "raise" THEN pr ELSE GetItem(pr.val, full_name(d))
    ELSE IF Parent(d) # NoDesc /\ Cls(Parent(d)) = "NestedListSetting"
    THEN LET pr == raw_value(Parent(d), idx)
         IN  IF pr.st = "raise" THEN pr ELSE GetIndex(pr.val, idx[d])
    ELSE IF full_name(d) \in DOMAIN conf
    THEN Ok(conf[full_name(d)])
    ELSE IF full_name(d) \in DOMAIN environ
    THEN decode_environ(d, environ[full_name(d)])
    ELSE Raise("AttributeError", [fmt |-> "no_attribute", name |-> full_name(d)])

\* Setting.raw_value; idx is the nested_list_index of every descriptor
raw_value(d, idx) ==
    IF Parent(d) # NoDesc /\ Cls(Parent(d)) \in NestedDictClasses
    THEN LET pr == raw_value(Parent(d), idx)
         IN  IF pr.st = "raise" THEN pr ELSE GetItem(pr.val, full_name(d))
    ELSE IF Parent(d) # NoDesc /\ Cls(Parent(d)) = "NestedListSetting"
    THEN LET pr == raw_value(Parent(d), idx)
         IN  IF pr.st = "raise" THEN pr ELSE GetIndex(pr.val, idx[d])
    ELSE IF full_name(d) \in DOMAIN environ
    THEN decode_environ(d, environ[full_name(d)])
    ELSE IF full_name(d) \in DOMAIN conf
    THEN Ok(conf[full_name(d)])
    ELSE Raise("AttributeError", [fmt |-> "no_attribute", name |-> full_name(d)])

\* default_value without the call_default test
default_value_always_called(d) ==
    IF IsCallable(dflt[d].default) THEN dflt[d].default.ret ELSE dflt[d].default

\* Setting.default_value
default_value(d) ==
    IF IsCallable(dflt[d].default) /\ dflt[d].call_default
    THEN dflt[d].default.ret
    ELSE dflt[d].default

\* _reraise_if_required that lets a missing item of a nested dict pass
reraise_if_required_but_KeyError(d, err) ==
    IF required[d] /\ err.exc # "KeyError"
    THEN Raise("ImproperlyConfigured",
               [fmt |-> "required_and", name |-> full_name(d), err |-> err.msg])
    ELSE Ok(None)

\* Setting._reraise_if_required: what it raises, or Ok(None) when it returns
reraise_if_required(d, err) ==
    IF required[d]
    THEN IF err.exc = "KeyError"
         THEN Raise("ImproperlyConfigured",
                    [fmt |-> "missing_required_item",
                     name |-> full_name(Parent(d)), err |-> err.msg])
         ELSE Raise("ImproperlyConfigured",
                    [fmt |-> "required_and", name |-> full_name(d), err |-> err.msg])
    ELSE Ok(None)

\* the for loop of ObjectSetting.transform over objects
RECURSIVE GetAttrs(_, _, _)
GetAttrs(current_object, objects, k) ==
    IF k > Len(objects) THEN Ok(current_object)
    ELSE LET r == getattr(current_object, objects[k])
         IN  IF r.st = "raise" THEN r ELSE GetAttrs(r.val, objects, k + 1)

\* the while loop of ObjectSetting.transform
RECURSIVE ImportParent(_, _)
ImportParentNext(obj_parent_modules, objects, r) ==
    IF r.st = "ok" THEN GetAttrs(r.val, objects, 1)
    ELSE IF r.exc = "ImportError"
    THEN IF Len(obj_parent_modules) = 1
         THEN Raise("ImportError",
                    [fmt |-> "no_module_named", name |-> obj_parent_modules[1]])
         ELSE ImportParent(SubSeq(obj_parent_modules, 1, Len(obj_parent_modules) - 1),
                           <<obj_parent_modules[Len(obj_parent_modules)]>> \o objects)
    ELSE r

ImportParent(obj_parent_modules, objects) ==
    ImportParentNext(obj_parent_modules, objects,
                     import_module(Join(obj_parent_modules, ".")))

\* ObjectSetting.transform
ObjectSettingTransform(path) ==
    IF Falsy(path) THEN Ok(None)
    ELSE IF path.t # "str"
    THEN Raise("AttributeError", [fmt |-> "has_no_attribute", attr |-> <<"split">>])
    ELSE LET parts == Split(path.s, ".")
         IN  ImportParent(SubSeq(parts, 1, Len(parts) - 1), <<parts[Len(parts)]>>)

\* transform, by class
RECURSIVE transform(_, _)
RECURSIVE TransformItems(_, _, _, _)
TransformItems(d, items, k, acc) ==
    IF k > Len(items) THEN Ok(PyTuple(acc))
    ELSE LET r == transform(d, items[k])
         IN  IF r.st = "raise" THEN r
             ELSE TransformItems(d, items, k + 1, Append(acc, r.val))

transform(d, value) ==
    IF Cls(d) = "FileSetting"
    THEN IF value.t = "str" THEN Ok(PyPath(value.s))
         ELSE IF value.t = "path" THEN Ok(value)
         ELSE TypeError
    ELSE IF Cls(d) = "NestedListSetting"
    THEN IF Iter(value).st = "raise" THEN Iter(value)
         ELSE TransformItems(InnerSetting(d), Iter(value).val, 1, <<>>)
    ELSE IF Cls(d) \in {"ObjectSetting", "CallablePathSetting"}
    THEN ObjectSettingTransform(value)
    ELSE Ok(value)

\* the result of a get_value() call: what it returned or raised, and the
\* nested_list_index attributes it leaves behind
Result(out, idx) == [out |-> out, idx |-> idx]

RECURSIVE get_value(_, _)
RECURSIVE NestedDictValues(_, _, _, _)
RECURSIVE NestedListValues(_, _, _, _, _)

\* Setting.get_value without the transform of a raw value
SettingGetValue_untransformed(d, idx) ==
    LET rv == raw_value(d, idx)
    IN  IF rv.st = "raise" /\ rv.exc \in NotFound
        THEN IF reraise_if_required(d, rv).st = "raise"
             THEN Result(reraise_if_required(d, rv), idx)
             ELSE IF dflt[d].transform_default
             THEN Result(transform(d, default_value(d)), idx)
             ELSE Result(Ok(default_value(d)), idx)
        ELSE Result(rv, idx)

\* Setting.get_value
SettingGetValue(d, idx) ==
    LET rv == raw_value(d, idx)
    IN  IF rv.st = "raise" /\ rv.exc \in NotFound
        THEN IF reraise_if_required(d, rv).st = "raise"
             THEN Result(reraise_if_required(d, rv), idx)
             ELSE IF dflt[d].transform_default
             THEN Result(transform(d, default_value(d)), idx)
             ELSE Result(Ok(default_value(d)), idx)
        ELSE IF rv.st = "raise"
        THEN Result(rv, idx)
        ELSE Result(transform(d, rv.val), idx)

\* the loop of NestedDictSetting.get_value storing each value under the
\* child's full name instead of its key in self.settings
NestedDictValues_by_full_name(d, k, value, idx) ==
    IF k > Len(SubSettings(d)) THEN Result(Ok(PyDict(value)), idx)
    ELSE LET r == get_value(SubSettings(d)[k][2], idx)
         IN  IF r.out.st = "raise" THEN r
             ELSE NestedDictValues(d, k + 1,
                      value @@ (full_name(SubSettings(d)[k][2]) :> r.out.val), r.idx)

\* the loop of NestedDictSetting.get_value over self.settings.items()
NestedDictValues(d, k, value, idx) ==
    IF k > Len(SubSettings(d)) THEN Result(Ok(PyDict(value)), idx)
    ELSE LET r == get_value(SubSettings(d)[k][2], idx)
         IN  IF r.out.st = "raise" THEN r
             ELSE NestedDictValues(d, k + 1,
                      value @@ (SubSettings(d)[k][1] :> r.out.val), r.idx)

\* NestedDictSetting.get_value
NestedDictSettingGetValue(d, idx) ==
    LET rv == raw_value(d, idx)
    IN  IF rv.st = "raise" /\ rv.exc \in NotFound
        THEN IF reraise_if_required(d, rv).st = "raise"
             THEN Result(reraise_if_required(d, rv), idx)
             ELSE IF dflt[d].transform_default
             THEN Result(transform(d, default_value(d)), idx)
             ELSE Result(Ok(default_value(d)), idx)
        ELSE IF rv.st = "raise"
        THEN Result(rv, idx)
        ELSE NestedDictValues(d, 1, <<>>, idx)

\* the loop of NestedListSetting.get_value that leaves the inner setting's
\* nested_list_index at the first position
NestedListValues_stale_index(d, items, k, return_value, idx) ==
    IF k > Len(items) THEN Result(Ok(PyTuple(return_value)), idx)
    ELSE LET set == [idx EXCEPT ![InnerSetting(d)] = PyInt(0)]
             r == get_value(InnerSetting(d), set)
         IN  IF r.out.st = "raise" THEN r
             ELSE NestedListValues(d, items, k + 1,
                      Append(return_value, r.out.val), r.idx)

\* the loop of NestedListSetting.get_value over enumerate(value)
NestedListValues(d, items, k, return_value, idx) ==
    IF k > Len(items) THEN Result(Ok(PyTuple(return_value)), idx)
    ELSE LET set == [idx EXCEPT ![InnerSetting(d)] = PyInt(k - 1)]
             r == get_value(InnerSetting(d), set)
         IN  IF r.out.st = "raise" THEN r
             ELSE NestedListValues(d, items, k + 1,
                      Append(return_value, r.out.val), r.idx)

\* NestedListSetting.get_value
NestedListSettingGetValue(d, idx) ==
    LET rv == raw_value(d, idx)
    IN  IF rv.st = "raise" /\ rv.exc \in NotFound
        THEN IF reraise_if_required(d, rv).st = "raise"
             THEN Result(reraise_if_required(d, rv), idx)
             ELSE IF dflt[d].transform_default
             THEN Result(transform(d, default_value(d)), idx)
             ELSE Result(Ok(default_value(d)), idx)
        ELSE IF rv.st = "raise"
        THEN Result(rv, idx)
        ELSE IF Iter(rv.val).st = "raise"
        THEN Result(Iter(rv.val), idx)
        ELSE NestedListValues(d, Iter(rv.val).val, 1, <<>>, idx)

\* get_value, as the class of the descriptor resolves it
get_value(d, idx) ==
    IF Cls(d) \in NestedDictClasses THEN NestedDictSettingGetValue(d, idx)
    ELSE IF Cls(d) = "NestedListSetting" THEN NestedListSettingGetValue(d, idx)
    ELSE SettingGetValue(d, idx)

-----------------------------------------------------------------------------
(* appsettings/validators.py and the validation of a descriptor.           *)

\* TypeValidator(value_type)
TypeValidator(type) == [v |-> "TypeValidator", type |-> type]

\* TypeValidator.__call__: the messages of the ValidationError it raises
TypeValidatorCall(validator, value) ==
    IF ~IsInstance(value, validator.type)
    THEN Raise("ValidationError",
               << [fmt |-> "not_of_type", value |-> value, type |-> validator.type] >>)
    ELSE Ok(None)

\* django.core.validators.MinLengthValidator(limit_value)
MinLengthValidator(limit_value) ==
    [v |-> "MinLengthValidator", limit_value |-> limit_value]

\* MinLengthValidator.__call__: len(value) < limit_value fails
MinLengthValidatorCall(validator, value) ==
    IF PyLen(value).st = "raise" THEN PyLen(value)
    ELSE IF PyLen(value).val < validator.limit_value
    THEN Raise("ValidationError",
               << [fmt |-> "min_length", limit_value |-> validator.limit_value,
                   show_value |-> PyLen(value).val] >>)
    ELSE Ok(None)

\* validator(value)
CallValidator(validator, value) ==
    IF validator.v = "MinLengthValidator"
    THEN MinLengthValidatorCall(validator, value)
    ELSE TypeValidatorCall(validator, value)

\* default_validators, by class
default_validators(cls) ==
    CASE cls = "BooleanSetting" -> <<TypeValidator("bool")>>
      [] cls = "IntegerSetting" -> <<TypeValidator("int")>>
      [] cls \in {"StringSetting", "ObjectSetting", "CallablePathSetting"} ->
             <<TypeValidator("str")>>
      [] cls \in {"DictSetting", "NestedDictSetting", "NestedSetting"} ->
             <<TypeValidator("dict")>>
      [] OTHER -> <<>>

\* Setting.__init__: self.validators for the validators argument extra
InitValidators(d, extra) == default_validators(Cls(d)) \o extra

\* DictSetting.__init__: self.validators with neither key_type nor value_type
DictSettingInitValidators(d, extra) ==
    InitValidators(d, extra)
    \o (IF ArgEmpty(d) # None THEN <<MinLengthValidator(1)>> ELSE <<>>)

\* CallablePathSetting.validate: transformed_value is what self.value did,
\* which is Setting.get_value, the get_value of the class
CallablePathSettingValidate(transformed_value) ==
    IF transformed_value.st = "raise" THEN transformed_value
    ELSE IF ~IsCallable(transformed_value.val)
    THEN Raise("ValidationError",
               << [fmt |-> "not_a_callable", value |-> transformed_value.val] >>)
    ELSE Ok(None)

\* the validate() method of the descriptor's class
validate(d, value, idx) ==
    IF hook[d] = "TestSetting.validate"
    THEN Raise("ValidationError", << [fmt |-> "not_worthy"] >>)
    ELSE IF hook[d] = "CallablePathSetting.validate"
    THEN CallablePathSettingValidate(SettingGetValue(d, idx).out)
    ELSE Ok(None)

\* the result of a validation: outcome, nested_list_index attributes left
\* behind, and the calls made in order
Checked(out, idx, log) == [out |-> out, idx |-> idx, log |-> log]

RECURSIVE RunValidators(_, _, _, _, _)

\* run_validators that raises at the first failing validator
RunValidatorsNext_first_failure(d, value, k, errors, log, r) ==
    IF r.st = "raise"
    THEN [out |-> r, log |-> log]
    ELSE RunValidators(d, value, k + 1, errors, log)

\* Setting.run_validators: the loop over self.validators; r is what the
\* k-th validator did
RunValidatorsNext(d, value, k, errors, log, r) ==
    IF r.st = "raise" /\ r.exc = "ValidationError"
    THEN RunValidators(d, value, k + 1, errors \o r.msg, log)
    ELSE IF r.st = "raise"
    THEN [out |-> r, log |-> log]
    ELSE RunValidators(d, value, k + 1, errors, log)

RunValidators(d, value, k, errors, log) ==
    IF k > Len(validators[d])
    THEN IF errors # <<>>
         THEN [out |-> Raise("ValidationError", errors), log |-> log]
         ELSE [out |-> Ok(None), log |-> log]
    ELSE RunValidatorsNext(d, value, k, errors,
             Append(log, [ev |-> "validator", d |-> d, k |-> k, arg |-> value]),
             CallValidator(validators[d][k], value))

run_validators(d, value) == RunValidators(d, value, 1, <<>>, <<>>)

\* the except clause of Setting.check: error is what validate() and
\* run_validators() did
SettingCheckWrap(d, idx, log, error) ==
    IF error.st = "raise" /\ error.exc = "ValidationError"
    THEN Checked(Raise("ImproperlyConfigured",
                       [fmt |-> "invalid_value", name |-> full_name(d),
                        errors |-> error.msg]),
                 idx, log)
    ELSE Checked(error, idx, log)

\* check that runs the validators also after validate() has failed
SettingCheckValue_aggregating(d, idx, log, hv, rn) ==
    IF hv.st = "raise" /\ rn.out.st = "raise"
    THEN SettingCheckWrap(d, idx, log \o rn.log,
                          Raise("ValidationError", hv.msg \o rn.out.msg))
    ELSE IF hv.st = "raise"
    THEN SettingCheckWrap(d, idx, log \o rn.log, hv)
    ELSE SettingCheckWrap(d, idx, log \o rn.log, rn.out)

\* the else clause of Setting.check: hv is what validate() did, rn what
\* run_validators() does after it
SettingCheckValue(d, idx, log, hv, rn) ==
    IF hv.st = "raise"
    THEN SettingCheckWrap(d, idx, log, hv)
    ELSE SettingCheckWrap(d, idx, log \o rn.log, rn.out)

\* check that validates the transformed value
SettingCheckRaw_transformed(d, idx, rv) ==
    IF rv.st = "raise" /\ rv.exc \in NotFound
    THEN Checked(reraise_if_required(d, rv), idx,
                 << [ev |-> "check", d |-> d, index |-> idx[d]] >>)
    ELSE IF rv.st = "raise"
    THEN Checked(rv, idx, << [ev |-> "check", d |-> d, index |-> idx[d]] >>)
    ELSE IF transform(d, rv.val).st = "raise"
    THEN Checked(transform(d, rv.val), idx,
                 << [ev |-> "check", d |-> d, index |-> idx[d]] >>)
    ELSE SettingCheckValue(d, idx,
             << [ev |-> "check", d |-> d, index |-> idx[d]],
                [ev |-> "validate", d |-> d, arg |-> transform(d, rv.val).val] >>,
             validate(d, transform(d, rv.val).val, idx),
             run_validators(d, transform(d, rv.val).val))

\* check that validates the default when no raw value is found
SettingCheckRaw_default_validated(d, idx, rv) ==
    IF rv.st = "raise" /\ rv.exc \in NotFound
    THEN IF reraise_if_required(d, rv).st = "raise"
         THEN Checked(reraise_if_required(d, rv), idx,
                      << [ev |-> "check", d |-> d, index |-> idx[d]] >>)
         ELSE SettingCheckValue(d, idx,
                  << [ev |-> "check", d |-> d, index |-> idx[d]],
                     [ev |-> "validate", d |-> d, arg |-> default_value(d)] >>,
                  validate(d, default_value(d), idx),
                  run_validators(d, default_value(d)))
    ELSE IF rv.st = "raise"
    THEN Checked(rv, idx, << [ev |-> "check", d |-> d, index |-> idx[d]] >>)
    ELSE SettingCheckValue(d, idx,
             << [ev |-> "check", d |-> d, index |-> idx[d]],
                [ev |-> "validate", d |-> d, arg |-> rv.val] >>,
             validate(d, rv.val, idx), run_validators(d, rv.val))

\* Setting.check, rv being self.raw_value
SettingCheckRaw(d, idx, rv) ==
    IF rv.st = "raise" /\ rv.exc \in NotFound
    THEN Checked(reraise_if_required(d, rv), idx,
                 << [ev |-> "check", d |-> d, index |-> idx[d]] >>)
    ELSE IF rv.st = "raise"
    THEN Checked(rv, idx, << [ev |-> "check", d |-> d, index |-> idx[d]] >>)
    ELSE SettingCheckValue(d, idx,
             << [ev |-> "check", d |-> d, index |-> idx[d]],
                [ev |-> "validate", d |-> d, arg |-> rv.val] >>,
             validate(d, rv.val, idx), run_validators(d, rv.val))

\* Setting.check
SettingCheck(d, idx) == SettingCheckRaw(d, idx, raw_value(d, idx))

RECURSIVE check(_, _)
RECURSIVE NestedDictChecks(_, _, _, _, _)
RECURSIVE NestedListChecks(_, _, _, _, _, _)

\* the loop of NestedDictSetting.check over self.settings.values(); r is
\* what the check() of the k-th subsetting did
NestedDictChecksNext(d, k, errors, log, r) ==
    IF r.out.st = "raise" /\ r.out.exc = "ValidationError"
    THEN NestedDictChecks(d, k + 1, errors \o r.out.msg, r.idx, log \o r.log)
    ELSE IF r.out.st = "raise"
    THEN Checked(r.out, r.idx, log \o r.log)
    ELSE NestedDictChecks(d, k + 1, errors, r.idx, log \o r.log)

NestedDictChecks(d, k, errors, idx, log) ==
    IF k > Len(SubSettings(d))
    THEN IF errors # <<>>
         THEN Checked(Raise("ValidationError", errors), idx, log)
         ELSE Checked(Ok(None), idx, log)
    ELSE NestedDictChecksNext(d, k, errors, log, check(SubSettings(d)[k][2], idx))

\* NestedDictSetting.check that checks the subsettings also when the
\* composite has no raw value
NestedDictSettingCheckRaw_children_always(d, idx, super, rv) ==
    IF super.out.st = "raise" THEN super
    ELSE IF rv.st = "raise" /\ rv.exc \in NotFound
    THEN NestedDictChecks(d, 1, <<>>, idx, super.log)
    ELSE IF rv.st = "raise" THEN Checked(rv, idx, super.log)
    ELSE IF rv.val # None
    THEN NestedDictChecks(d, 1, <<>>, idx, super.log)
    ELSE super

\* NestedDictSetting.check after super().check() returned super, rv being
\* self.raw_value
NestedDictSettingCheckRaw(d, idx, super, rv) ==
    IF super.out.st = "raise" THEN super
    ELSE IF rv.st = "raise" /\ rv.exc \in NotFound THEN super
    ELSE IF rv.st = "raise" THEN Checked(rv, idx, super.log)
    ELSE IF rv.val # None
    THEN NestedDictChecks(d, 1, <<>>, idx, super.log)
    ELSE super

\* NestedDictSetting.check
NestedDictSettingCheck(d, idx) ==
    NestedDictSettingCheckRaw(d, idx, SettingCheck(d, idx), raw_value(d, idx))

\* the loop of NestedListSetting.check over enumerate(value); r is what the
\* check() of the inner setting did at position k - 1
NestedListChecksNext(d, items, k, errors, log, r) ==
    IF r.out.st = "raise" /\ r.out.exc = "ValidationError"
    THEN NestedListChecks(d, items, k + 1, errors \o r.out.msg, r.idx, log \o r.log)
    ELSE IF r.out.st = "raise"
    THEN Checked(r.out, r.idx, log \o r.log)
    ELSE NestedListChecks(d, items, k + 1, errors, r.idx, log \o r.log)

NestedListChecks(d, items, k, errors, idx, log) ==
    IF k > Len(items)
    THEN IF errors # <<>>
         THEN Checked(Raise("ValidationError", errors), idx, log)
         ELSE Checked(Ok(None), idx, log)
    ELSE NestedListChecksNext(d, items, k, errors, log,
             check(InnerSetting(d), [idx EXCEPT ![InnerSetting(d)] = PyInt(k - 1)]))

\* NestedListSetting.check after super().check() returned super, rv being
\* self.raw_value and items what enumerate(value) visits
NestedListSettingCheckRaw(d, idx, super, rv, items) ==
    IF super.out.st = "raise" THEN super
    ELSE IF rv.st = "raise" /\ rv.exc \in NotFound
    THEN Checked(reraise_if_required(d, rv), idx, super.log)
    ELSE IF rv.st = "raise" THEN Checked(rv, idx, super.log)
    ELSE IF items.st = "raise"
    THEN Checked(items, idx, super.log)
    ELSE NestedListChecks(d, items.val, 1, <<>>, idx, super.log)

\* NestedListSetting.check
NestedListSettingCheck(d, idx) ==
    NestedListSettingCheckRaw(d, idx, SettingCheck(d, idx), raw_value(d, idx),
        IF raw_value(d, idx).st = "ok" THEN Iter(raw_value(d, idx).val) ELSE TypeError)

\* check, as the class of the descriptor resolves it
check(d, idx) ==
    IF Cls(d) \in NestedDictClasses THEN NestedDictSettingCheck(d, idx)
    ELSE IF Cls(d) = "NestedListSetting" THEN NestedListSettingCheck(d, idx)
    ELSE SettingCheck(d, idx)

-----------------------------------------------------------------------------
(* appsettings/__init__.py: the settings group.                            *)

RECURSIVE GroupChecks(_, _, _, _)

\* AppSettings.check that raises at the first failing setting
GroupChecksNext_first_failure(k, exceptions, log, r) ==
    IF r.out.st = "raise" /\ r.out.exc = "ImproperlyConfigured"
    THEN Checked(Raise("ImproperlyConfigured",
                       [fmt |-> "joined", lines |-> <<r.out.msg>>]),
                 r.idx, log \o r.log)
    ELSE IF r.out.st = "raise"
    THEN Checked(r.out, r.idx, log \o r.log)
    ELSE GroupChecks(k + 1, exceptions, r.idx, log \o r.log)

\* the loop of AppSettings.check over cls.settings.values(); r is what the
\* check() of the k-th setting did
GroupChecksNext(k, exceptions, log, r) ==
    IF r.out.st = "raise" /\ r.out.exc = "ImproperlyConfigured"
    THEN GroupChecks(k + 1, Append(exceptions, r.out.msg), r.idx, log \o r.log)
    ELSE IF r.out.st = "raise"
    THEN Checked(r.out, r.idx, log \o r.log)
    ELSE GroupChecks(k + 1, exceptions, r.idx, log \o r.log)

GroupChecks(k, exceptions, idx, log) ==
    IF k > Len(settings)
    THEN IF exceptions # <<>>
         THEN Checked(Raise("ImproperlyConfigured",
                            [fmt |-> "joined", lines |-> exceptions]), idx, log)
         ELSE Checked(Ok(None), idx, log)
    ELSE GroupChecksNext(k, exceptions, log, check(settings[k][2], idx))

\* AppSettings.check of the subclass
AppSettingsCheck(idx) == GroupChecks(1, <<>>, idx, <<>>)

-----------------------------------------------------------------------------
(* The descriptors as functions of their sources: every initial state is   *)
(* a content of the primary store and a setup of the descriptors, and      *)
(* the actions call get_value() and check() on it.                         *)

\* the attributes the constructors of the class body set
ConstructedDefault ==
    [d \in Desc |-> [default |-> ArgDefault(d), call_default |-> TRUE,
                     transform_default |-> FALSE]]

ConstructedValidators ==
    [d \in Desc |-> IF Cls(d) = "DictSetting"
                    THEN DictSettingInitValidators(d, <<>>)
                    ELSE InitValidators(d, <<>>)]

ConstructedHook ==
    [d \in Desc |-> IF Cls(d) = "CallablePathSetting"
                    THEN "CallablePathSetting.validate"
                    ELSE "Setting.validate"]

NoIndex == [d \in Desc |-> None]

\* the threads of the process, and a thread that is in no read
Threads == 1..MaxThreads
Idle == [pc |-> "idle"]
NoFrames == [t \in Threads |-> Idle]

NoRequired == [d \in Desc |-> FALSE]

\* the top-level descriptor through which d reads its raw value
RECURSIVE Root(_)
Root(d) == IF Parent(d) = NoDesc THEN d ELSE Root(Parent(d))

\* sequences over S of length at most n
RECURSIVE SeqsUpTo(_, _)
SeqsUpTo(S, n) ==
    IF n = 0 THEN {<<>>}
    ELSE SeqsUpTo(S, n - 1)
         \cup {Append(q, x) : q \in {q \in SeqsUpTo(S, n - 1) : Len(q) = n - 1}, x \in S}

KeyA == <<"A">>
KeyC == <<"C">>
KeyZ == <<"Z">>

\* the values an item of the nested dict takes in the store
ItemValues(key) ==
    IF key = KeyA THEN {PyBool(TRUE), PyStr(<<"x">>)}
    ELSE IF key = KeyC THEN {PyBool(FALSE), PyStr(<<"x">>)}
    ELSE {PyInt(1)}

DictValues ==
    {PyDict(f) : f \in UNION {
        {g \in [K -> {PyBool(TRUE), PyBool(FALSE), PyStr(<<"x">>), PyInt(1)}] :
            \A key \in K : g[key] \in ItemValues(key)} :
        K \in SUBSET {KeyA, KeyC, KeyZ}}}

ListValues == {PyList(q) : q \in SeqsUpTo({PyInt(0), PyInt(1), PyStr(<<"x">>)}, MaxLen)}

\* lists of lists (or tuples) of a string and a number
ListOfListValues ==
    LET inner == SeqsUpTo({PyStr(<<"x">>), PyInt(1)}, MaxLen)
    IN  {PyList(q) : q \in SeqsUpTo({PyList(r) : r \in inner}
                                    \cup {PyTuple(<<PyStr(<<"x">>)>>)}, MaxLen)}

\* the values the primary store holds for a top-level descriptor
ConfValues(d) ==
    CASE d = "s" -> {PyInt(1), None}
      [] d = "f" -> {PyStr(<<"x">>), PyInt(1)}
      [] d = "v" -> {PyInt(1), PyBool(TRUE), PyStr(<<"x">>), None}
      [] d = "nd" -> DictValues \cup {None, PyList(<<>>)}
      [] d = "nl" -> ListValues \cup {PyTuple(<<PyInt(2)>>)}
      [] d = "ul" -> {PyList(<<PyInt(1)>>), PyList(<<PyStr(<<"x">>)>>)}
      [] d = "ll" -> ListOfListValues \cup {PyList(<<PyInt(1)>>)}

\* a store that holds at most the key of one top-level descriptor
ConfsOf(d) ==
    {<<>>} \cup {(full_name(d) :> value) : value \in ConfValues(d)}

\* two values of each, one of them what the descriptor is written for
UsualValues(d) ==
    CASE d = "s" -> {PyInt(1), None}
      [] d = "f" -> {PyStr(<<"x">>), PyInt(1)}
      [] d = "v" -> {PyInt(1), None}
      [] d = "nd" -> {PyDict(<<>>), PyDict((KeyA :> PyBool(TRUE)) @@ (KeyC :> PyBool(FALSE)))}
      [] d = "nl" -> {PyList(<<>>), PyList(<<PyInt(1)>>)}
      [] d = "ul" -> {PyList(<<PyInt(1)>>), PyList(<<PyStr(<<"x">>)>>)}
      [] d = "ll" -> {PyList(<<>>), PyList(<<PyList(<<PyStr(<<"x">>)>>)>>)}

UsualConfsOf(d) ==
    {<<>>} \cup {(full_name(d) :> value) : value \in UsualValues(d)}

RequiredSets(S) ==
    {[d \in Desc |-> d \in R] : R \in {R \in SUBSET S : Cardinality(R) <= MaxRequired}}

Defaults(d) ==
    [default : {ArgDefault(d), PyStr(<<"x">>), Callable(PyStr(<<"x">>))},
     call_default : BOOLEAN, transform_default : BOOLEAN]

ValidatorLists ==
    SeqsUpTo({TypeValidator("int"), TypeValidator("bool"), TypeValidator("str")},
             MaxValidators)

Started == [op |-> "start", d |-> NoDesc, out |-> Ok(None), log |-> <<>>]

InitSources ==
    /\ environ = <<>>
    /\ overrides = <<>>
    /\ live = {}
    /\ cache = <<>>
    /\ nested_list_index = NoIndex
    /\ frame = NoFrames
    /\ res = Started

\* the descriptors called here: the settings of the group that have a
\* name of their own, and what they hold
GroupDesc == {"s", "f", "v", "nd", "a", "b", "nl", "i"}

\* one descriptor of the group with any default, call_default and
\* transform_default
InitDefaults ==
    /\ InitSources
    /\ \E d \in GroupDesc :
        /\ dflt \in {[ConstructedDefault EXCEPT ![d] = c] : c \in Defaults(d)}
        /\ required \in RequiredSets({d, Parent(d)} \cap Desc)
        /\ conf \in UsualConfsOf(Root(d))
    /\ validators = ConstructedValidators
    /\ hook = ConstructedHook

\* the setting v with any list of validators and either validate() method
InitValidated ==
    /\ InitSources
    /\ dflt = ConstructedDefault
    /\ required \in RequiredSets({"v"})
    /\ conf \in ConfsOf("v")
    /\ validators \in {[ConstructedValidators EXCEPT !["v"] = InitValidators("v", extra)] :
                          extra \in ValidatorLists}
    /\ hook \in {[ConstructedHook EXCEPT !["v"] = h] :
                    h \in {"Setting.validate", "TestSetting.validate"}}

\* a composite with any raw value and any required children
InitNested ==
    /\ InitSources
    /\ dflt = ConstructedDefault
    /\ \E d \in {"nd", "nl"} :
        /\ required \in RequiredSets({e \in Desc : Root(e) = d})
        /\ conf \in ConfsOf(d)
    /\ validators = ConstructedValidators
    /\ hook = ConstructedHook

\* the whole group, every top-level setting present or absent
InitGroup ==
    /\ InitSources
    /\ dflt = ConstructedDefault
    /\ required \in RequiredSets(TopLevel)
    /\ \E present \in SUBSET (TopLevel \cap GroupDesc) :
         \E bad \in SUBSET (present \cap {"nd", "nl"}) :
           conf = [key \in {full_name(d) : d \in present} |->
                     LET d == CHOOSE e \in present : full_name(e) = key
                     IN  IF d = "nd"
                         THEN IF d \in bad THEN PyDict(KeyA :> PyStr(<<"x">>))
                              ELSE PyDict(KeyA :> PyBool(TRUE))
                         ELSE IF Cls(d) = "NestedListSetting"
                         THEN IF d \in bad THEN PyList(<<PyStr(<<"x">>)>>)
                              ELSE PyList(<<PyInt(0)>>)
                         ELSE IF d = "f" THEN PyStr(<<"x">>)
                         ELSE PyInt(1)]
    /\ validators = ConstructedValidators
    /\ hook = ConstructedHook

InitDesc == InitDefaults \/ InitValidated \/ InitNested \/ InitGroup

unchangedSetup ==
    UNCHANGED <<environ, conf, overrides, live, cache, required, dflt, validators, hook,
                frame>>

\* setting.get_value()
GetValue(d) ==
    LET r == get_value(d, nested_list_index)
    IN  /\ res' = [op |-> "get_value", d |-> d, out |-> r.out, log |-> <<>>]
        /\ nested_list_index' = r.idx
        /\ unchangedSetup

\* setting.check()
Check(d) ==
    LET r == check(d, nested_list_index)
    IN  /\ res' = [op |-> "check", d |-> d, out |-> r.out, log |-> r.log]
        /\ nested_list_index' = r.idx
        /\ unchangedSetup

\* AppConf.check()
GroupCheck ==
    LET r == AppSettingsCheck(nested_list_index)
    IN  /\ res' = [op |-> "AppSettings.check", d |-> NoDesc, out |-> r.out, log |-> r.log]
        /\ nested_list_index' = r.idx
        /\ unchangedSetup

NextDesc ==
    \/ \E d \in GroupDesc : GetValue(d)
    \/ \E d \in GroupDesc : Check(d)
    \/ GroupCheck

SpecDesc == InitDesc /\ [][NextDesc]_vars

\* the nested lists and what they hold
ListDesc == {d \in Desc : Cls(Root(d)) = "NestedListSetting"}

\* a nested list, of integers or of lists of files, with any raw value
InitLists ==
    /\ InitSources
    /\ dflt = ConstructedDefault
    /\ required = NoRequired
    /\ \E d \in {"nl", "ul", "ll"} : conf \in ConfsOf(d)
    /\ validators = ConstructedValidators
    /\ hook = ConstructedHook

NextLists ==
    \/ \E d \in ListDesc : GetValue(d)
    \/ \E d \in ListDesc : Check(d)

SpecLists == InitLists /\ [][NextLists]_vars

-----------------------------------------------------------------------------
(* The flat namespace next to the composites: os.environ and the primary   *)
(* store may hold entries under any name, also under the full name of a    *)
(* descriptor that a composite owns, and they change between the calls.    *)

\* the descriptors called here: a plain setting and the composites with
\* what they hold
FlatDesc == {"s", "nd", "a", "b", "nl", "i", "ll", "li"}

\* the names os.environ may hold
EnvironKeys == {full_name("s"), full_name("a"), full_name("i")}

\* the names the primary store may get or lose
StoreKeys == {full_name("s"), full_name("a"), full_name("i"), full_name("ll")}

EnvironValue == <<"1">>

StoreValue(key) ==
    IF key = full_name("ll")
    THEN PyList(<<PyList(<<PyStr(<<"x">>)>>)>>)
    ELSE PyInt(0)

InitFlat ==
    /\ InitSources
    /\ dflt = ConstructedDefault
    /\ required = NoRequired
    /\ conf \in {(full_name("nl") :> PyList(<<PyInt(2)>>)) @@ c :
                    c \in {<<>>, (full_name("nd") :>
                                     PyDict((KeyA :> PyBool(FALSE)) @@ (KeyC :> PyBool(TRUE))))}}
    /\ validators = ConstructedValidators
    /\ hook = ConstructedHook

Patched(op) == [op |-> op, d |-> NoDesc, out |-> Ok(None), log |-> <<>>]

\* os.environ[key] = value
SetEnviron(key) ==
    /\ environ' = (key :> EnvironValue) @@ environ
    /\ res' = Patched("os.environ")
    /\ UNCHANGED <<conf, overrides, live, cache, required, dflt, validators, hook,
                   nested_list_index, frame>>

\* del os.environ[key]
DelEnviron(key) ==
    /\ key \in DOMAIN environ
    /\ environ' = [k \in DOMAIN environ \ {key} |-> environ[k]]
    /\ res' = Patched("os.environ")
    /\ UNCHANGED <<conf, overrides, live, cache, required, dflt, validators, hook,
                   nested_list_index, frame>>

\* settings.KEY = value
SetStore(key) ==
    /\ conf' = (key :> StoreValue(key)) @@ conf
    /\ res' = Patched("settings")
    /\ UNCHANGED <<environ, overrides, live, cache, required, dflt, validators, hook,
                   nested_list_index, frame>>

\* del settings.KEY
DelStore(key) ==
    /\ key \in DOMAIN conf
    /\ conf' = [k \in DOMAIN conf \ {key} |-> conf[k]]
    /\ res' = Patched("settings")
    /\ UNCHANGED <<environ, overrides, live, cache, required, dflt, validators, hook,
                   nested_list_index, frame>>

\* setting.raw_value
RawValue(d) ==
    /\ res' = [op |-> "raw_value", d |-> d,
               out |-> raw_value(d, nested_list_index), log |-> <<>>]
    /\ UNCHANGED nested_list_index
    /\ unchangedSetup

NextFlat ==
    \/ \E d \in FlatDesc : RawValue(d)
    \/ \E d \in FlatDesc : GetValue(d)
    \/ \E d \in FlatDesc : Check(d)
    \/ \E key \in EnvironKeys : SetEnviron(key)
    \/ \E key \in EnvironKeys : DelEnviron(key)
    \/ \E key \in StoreKeys : SetStore(key)
    \/ \E key \in StoreKeys : DelStore(key)

SpecFlat == InitFlat /\ [][NextFlat]_vars

-----------------------------------------------------------------------------
(* The settings that hold a dotted path, with any path in the store.       *)

ObjectDesc == {"o", "cp"}

\* the segments the paths are made of; z names nothing
Segments == {<<"t">>, <<"m">>, <<"c">>, <<"f">>, <<"k">>, <<"z">>}

\* None, the empty string, two values that are no strings, and every dotted
\* path of one to MaxPath segments
PathValues ==
    {None, PyStr(<<>>), PyInt(0), PyInt(1)}
    \cup {PyStr(Join(q, ".")) : q \in UNION {[1..n -> Segments] : n \in 1..MaxPath}}

InitObject ==
    /\ InitSources
    /\ dflt = ConstructedDefault
    /\ required \in RequiredSets(ObjectDesc)
    /\ conf \in {<<>>} \cup {(full_name(d) :> value) : d \in ObjectDesc, value \in PathValues}
    /\ validators = ConstructedValidators
    /\ hook = ConstructedHook

NextObject ==
    \/ \E d \in ObjectDesc : GetValue(d)
    \/ \E d \in ObjectDesc : Check(d)

SpecObject == InitObject /\ [][NextObject]_vars

-----------------------------------------------------------------------------
(* The settings of one type: a boolean that os.environ gives as a string   *)
(* and the dicts built with and without the empty argument.                *)

TypedDesc == {"bo", "dd", "da", "dn"}

\* the letters of the boolean words, in both cases
WordLower == <<"t", "r", "u", "e", "y", "s", "n", "o", "f", "a", "l">>
WordUpper == <<"T", "R", "U", "E", "Y", "S", "N", "O", "F", "A", "L">>

\* the two letters are the same, the case aside
SameLetter(c, e) ==
    \/ c = e
    \/ \E j \in DOMAIN WordLower : {c, e} = {WordLower[j], WordUpper[j]}

\* word in every mix of upper and lower case
RECURSIVE CaseMixes(_)
CaseMixes(word) ==
    IF word = <<>> THEN {<<>>}
    ELSE {<<c>> \o rest :
            c \in {c \in Range(WordLower) \cup Range(WordUpper) \cup {"0", "1"} :
                      SameLetter(c, Head(word))},
            rest \in CaseMixes(Tail(word))}

TrueWords == {<<"t", "r", "u", "e">>, <<"y", "e", "s">>, <<"1">>}
FalseWords == {<<"f", "a", "l", "s", "e">>, <<"n", "o">>, <<"0">>}

\* the strings os.environ holds for the boolean: the words in every case,
\* and strings that are none of them
BooleanStrings ==
    UNION {CaseMixes(word) : word \in TrueWords \cup FalseWords}
    \cup {<<>>, <<"2">>, <<"o", "n">>, <<"t">>, <<"y">>, <<"t", "r", "u">>,
          <<"t", "r", "u", "e", "e">>, <<" ", "t", "r", "u", "e">>,
          <<"n", "u", "l", "l">>, <<"N", "O", "N", "E">>}

\* the ones of them os.environ holds when the process starts
BooleanEnvirons ==
    {<<"t", "r", "u", "e">>, <<"T", "R", "U", "E">>, <<"Y", "e", "s">>, <<"0">>,
     <<"N", "o">>, <<"o", "n">>, <<>>}

\* the strings os.environ holds for a dict
DictStrings ==
    {<<"{", "}">>, <<>>, <<"a", "=", "b">>, <<"a">>, <<"a", "=", "b", " ", "c", "=", "d">>,
     <<"a", "=", "b", "=", "c">>}

\* the values the primary store holds for a dict
DictInputs == {PyDict(<<>>), PyDict(KeyA :> PyInt(1)), PyList(<<>>), None}

EnvironStrings(d) == IF Cls(d) = "BooleanSetting" THEN BooleanStrings ELSE DictStrings

InitTyped ==
    /\ overrides = <<>>
    /\ live = {}
    /\ cache = <<>>
    /\ nested_list_index = NoIndex
    /\ frame = NoFrames
    /\ res = Started
    /\ dflt = ConstructedDefault
    /\ required = NoRequired
    /\ validators = ConstructedValidators
    /\ hook = ConstructedHook
    /\ \/ /\ environ \in {<<>>} \cup {(full_name(d) :> str) :
                                         d \in TypedDesc, str \in DictStrings}
          /\ conf = <<>>
       \/ /\ environ \in {(full_name("bo") :> str) : str \in BooleanEnvirons}
          /\ conf \in {<<>>, (full_name("bo") :> PyBool(FALSE))}
       \/ /\ environ = <<>>
          /\ conf \in {(full_name(d) :> value) :
                          d \in TypedDesc \ {"bo"}, value \in DictInputs}

\* setting.decode_environ(value)
DecodeEnviron(d, value) ==
    /\ res' = [op |-> "decode_environ", d |-> d, arg |-> value,
               out |-> decode_environ(d, value), log |-> <<>>]
    /\ UNCHANGED nested_list_index
    /\ unchangedSetup

NextTyped ==
    \/ \E d \in TypedDesc : RawValue(d)
    \/ \E d \in TypedDesc : GetValue(d)
    \/ \E d \in TypedDesc : Check(d)
    \/ \E d \in TypedDesc : \E value \in EnvironStrings(d) : DecodeEnviron(d, value)

SpecTyped == InitTyped /\ [][NextTyped]_vars

-----------------------------------------------------------------------------
(* Properties of get_value() and check(), under SpecDesc.                  *)

\* ---------------------------------------------------------------------
\* Instances of the group: the cache, the signal handlers, overrides
\* ---------------------------------------------------------------------

\* AppSettings.OS_ENVIRON_OVERRIDE_PREFIX
OS_ENVIRON_OVERRIDE_PREFIX == <<"_", "_", "D", "A", "P", "_">>

Fetched(out, c, idx, log) == [out |-> out, cache |-> c, idx |-> idx, log |-> log]

\* __getattr__ that stores None for a get_value() that raised
GetAttrStore_caches_failure(c, item, r) ==
    IF r.out.st = "ok"
    THEN Fetched(r.out, (item :> r.out.val) @@ c, r.idx,
                 << [ev |-> "get_value", d |-> SettingOf(item)] >>)
    ELSE Fetched(r.out, (item :> None) @@ c, r.idx,
                 << [ev |-> "get_value", d |-> SettingOf(item)] >>)

\* the assignment of __getattr__: r is what get_value() of the setting did
GetAttrStore(c, item, r) ==
    IF r.out.st = "ok"
    THEN Fetched(r.out, (item :> r.out.val) @@ c, r.idx,
                 << [ev |-> "get_value", d |-> SettingOf(item)] >>)
    ELSE Fetched(r.out, c, r.idx, << [ev |-> "get_value", d |-> SettingOf(item)] >>)

\* __getattr__ that never looks into the cache
GetAttr_uncached(c, item, idx) ==
    IF item \in Items
    THEN GetAttrStore(c, item, get_value(SettingOf(item), idx))
    ELSE Fetched(Raise("AttributeError", [fmt |-> "object_no_attribute", item |-> item]),
                 c, idx, <<>>)

\* AppSettings.__getattr__ on an instance whose _cache is c
GetAttr(c, item, idx) ==
    IF item \in Items
    THEN IF item \in DOMAIN c
         THEN Fetched(Ok(c[item]), c, idx, <<>>)
         ELSE GetAttrStore(c, item, get_value(SettingOf(item), idx))
    ELSE Fetched(Raise("AttributeError", [fmt |-> "object_no_attribute", item |-> item]),
                 c, idx, <<>>)

\* invalidate_cache that keeps the entries
invalidate_cache_kept(c) == c

\* AppSettings.invalidate_cache: the new _cache
invalidate_cache(c) == <<>>

\* os.environ[to] = os.environ[from]; del os.environ[from]
Rename(env, from, to) ==
    [key \in (DOMAIN env \ {from}) \cup {to} |->
        IF key = to THEN env[from] ELSE env[key]]

\* manage_environ_invalidation without the search for the setting
manage_environ_invalidation_any_key(env, setting, enter) ==
    IF enter /\ setting \in DOMAIN env
    THEN Rename(env, setting, OS_ENVIRON_OVERRIDE_PREFIX \o setting)
    ELSE IF ~enter /\ (OS_ENVIRON_OVERRIDE_PREFIX \o setting) \in DOMAIN env
    THEN Rename(env, OS_ENVIRON_OVERRIDE_PREFIX \o setting, setting)
    ELSE env

\* AppSettings.manage_environ_invalidation: the new os.environ
manage_environ_invalidation(env, setting, enter) ==
    IF \E k \in DOMAIN settings : full_name(settings[k][2]) = setting
    THEN IF enter /\ setting \in DOMAIN env
         THEN Rename(env, setting, OS_ENVIRON_OVERRIDE_PREFIX \o setting)
         ELSE IF ~enter /\ (OS_ENVIRON_OVERRIDE_PREFIX \o setting) \in DOMAIN env
         THEN Rename(env, OS_ENVIRON_OVERRIDE_PREFIX \o setting, setting)
         ELSE env
    ELSE env

\* setting_changed.send: os.environ after the manage_environ_invalidation
\* handler of each of the receiving instances has run
RECURSIVE SendSettingChanged(_, _, _, _)
SendSettingChanged(env, receivers, setting, enter) ==
    IF receivers = {} THEN env
    ELSE LET i == CHOOSE i \in receivers : \A j \in receivers : i <= j
         IN  SendSettingChanged(manage_environ_invalidation(env, setting, enter),
                                receivers \ {i}, setting, enter)

\* the names read on an instance: two settings and a name that is none
ReadNames == {<<"s">>, <<"n", "l">>, <<"z">>}

\* the keys of the overrides, a setting's and one of no setting, and the
\* values they give
OverrideKeys == {full_name("s"), KeyZ}
OverrideValues(key) == IF key = KeyZ THEN {PyInt(1)} ELSE {PyInt(1), PyInt(2)}

\* what os.environ and the primary store hold when the process starts
Environs == {<<>>, (full_name("s") :> <<"0">>)}
Stores == {<<>>, (full_name("s") :> PyInt(0))}

Init ==
    /\ environ \in Environs
    /\ conf \in Stores
    /\ overrides = <<>>
    /\ live = {}
    /\ cache = <<>>
    /\ required \in RequiredSets({"s"})
    /\ dflt = ConstructedDefault
    /\ validators = ConstructedValidators
    /\ hook = ConstructedHook
    /\ nested_list_index = NoIndex
    /\ frame = NoFrames
    /\ res = Started

unchangedDescriptors == UNCHANGED <<required, dflt, validators, hook, frame>>

Did(op, i, item, out, log) ==
    [op |-> op, inst |-> i, item |-> item, out |-> out, log |-> log]

\* AppConf(): AppSettings.__init__ of a subclass; instances are numbered
\* in the order of their creation
New(i) ==
    /\ i = Cardinality(live) + 1
    /\ live' = live \cup {i}
    /\ cache' = (i :> <<>>) @@ cache
    /\ res' = Did("__init__", i, <<>>, Ok(None), <<>>)
    /\ UNCHANGED <<environ, conf, overrides, nested_list_index>>
    /\ unchangedDescriptors

\* appconf.<item>
Read(i, item) ==
    /\ i \in live
    /\ LET r == GetAttr(cache[i], item, nested_list_index)
       IN  /\ cache' = [cache EXCEPT ![i] = r.cache]
           /\ nested_list_index' = r.idx
           /\ res' = Did("read", i, item, r.out, r.log)
    /\ UNCHANGED <<environ, conf, overrides, live>>
    /\ unchangedDescriptors

\* appconf.invalidate_cache()
InvalidateCache(i) ==
    /\ i \in live
    /\ cache' = [cache EXCEPT ![i] = invalidate_cache(cache[i])]
    /\ res' = Did("invalidate_cache", i, <<>>, Ok(None), <<>>)
    /\ UNCHANGED <<environ, conf, overrides, live, nested_list_index>>
    /\ unchangedDescriptors

\* entering "with override_settings(KEY=value)": the store is replaced and
\* setting_changed is sent with enter=True
Enter(key, value) ==
    /\ Len(overrides) < MaxOverrides
    /\ overrides' = Append(overrides, [key |-> key, value |-> value,
                                       wrapped |-> conf, receivers |-> live])
    /\ conf' = (key :> value) @@ conf
    /\ cache' = [i \in live |-> invalidate_cache(cache[i])]
    /\ environ' = SendSettingChanged(environ, live, key, TRUE)
    /\ res' = Did("enter", 0, key, Ok(None), <<>>)
    /\ UNCHANGED <<live, nested_list_index>>
    /\ unchangedDescriptors

\* leaving the innermost override: the store is put back and
\* setting_changed is sent with enter=False
Exit ==
    /\ overrides # <<>>
    /\ overrides' = SubSeq(overrides, 1, Len(overrides) - 1)
    /\ conf' = overrides[Len(overrides)].wrapped
    /\ cache' = [i \in live |-> invalidate_cache(cache[i])]
    /\ environ' = SendSettingChanged(environ, live, overrides[Len(overrides)].key, FALSE)
    /\ res' = Did("exit", 0, overrides[Len(overrides)].key, Ok(None), <<>>)
    /\ UNCHANGED <<live, nested_list_index>>
    /\ unchangedDescriptors

Next ==
    \/ \E i \in 1..MaxInstances : New(i)
    \/ \E i \in 1..MaxInstances : \E item \in ReadNames : Read(i, item)
    \/ \E i \in 1..MaxInstances : InvalidateCache(i)
    \/ \E key \in OverrideKeys : \E value \in OverrideValues(key) : Enter(key, value)
    \/ Exit

Spec == Init /\ [][Next]_vars

\* the same instances in a process whose environment holds, for the
\* setting s, a number, a string that is no JSON, or nothing, and may hold
\* a variable that is no setting's
EnvironsOf(key, strings) == {<<>>} \cup {(key :> str) : str \in strings}

InitEnviron ==
    /\ environ \in {e @@ z : e \in EnvironsOf(full_name("s"), {<<"0">>, <<"x">>}),
                             z \in EnvironsOf(KeyZ, {<<"1">>})}
    /\ conf \in Stores
    /\ overrides = <<>>
    /\ live = {}
    /\ cache = <<>>
    /\ required \in RequiredSets({"s"})
    /\ dflt = ConstructedDefault
    /\ validators = ConstructedValidators
    /\ hook = ConstructedHook
    /\ nested_list_index = NoIndex
    /\ frame = NoFrames
    /\ res = Started

SpecEnviron == InitEnviron /\ [][Next]_vars

-----------------------------------------------------------------------------
(* Threads: every thread has an AppSettings instance of its own, thread t  *)
(* the instance t, and reads the nested list nl of the group on it. The    *)
(* descriptors are attributes of the class: inner_setting and its          *)
(* nested_list_index are the same objects for all instances. A thread may  *)
(* be preempted between the assignment of nested_list_index and the call   *)
(* of inner_setting.get_value() that reads it.                             *)

\* the frame of a thread inside the loop of NestedListSetting.get_value
InLoop(pc, item, value, index, return_value) ==
    [pc |-> pc, item |-> item, value |-> value, index |-> index,
     return_value |-> return_value]

\* the items the threads read
ThreadItems == {<<"n", "l">>}

InitThreads ==
    /\ environ = <<>>
    /\ conf \in ConfsOf("nl")
    /\ overrides = <<>>
    /\ live = Threads
    /\ cache = [i \in Threads |-> <<>>]
    /\ required = NoRequired
    /\ dflt = ConstructedDefault
    /\ validators = ConstructedValidators
    /\ hook = ConstructedHook
    /\ nested_list_index = NoIndex
    /\ frame = NoFrames
    /\ res = Started

\* appconf.<item> up to the loop of get_value: the lookup in _cache and
\* self.raw_value; a read that does not enter the loop ends here
BeginRead(t, item) ==
    /\ frame[t] = Idle
    /\ LET rv == raw_value(SettingOf(item), nested_list_index)
       IN  IF \/ item \in DOMAIN cache[t]
              \/ rv.st = "raise"
              \/ Iter(rv.val).st = "raise"
           THEN LET r == GetAttr(cache[t], item, nested_list_index)
                IN  /\ cache' = [cache EXCEPT ![t] = r.cache]
                    /\ nested_list_index' = r.idx
                    /\ res' = Did("read", t, item, r.out, r.log)
                    /\ UNCHANGED frame
           ELSE /\ frame' = [frame EXCEPT ![t] =
                                InLoop("for", item, Iter(rv.val).val, 0, <<>>)]
                /\ UNCHANGED <<cache, nested_list_index, res>>
    /\ UNCHANGED <<environ, conf, overrides, live, required, dflt, validators, hook>>

\* self.inner_setting.nested_list_index = index
SetIndex(t) ==
    /\ frame[t].pc = "for"
    /\ frame[t].index < Len(frame[t].value)
    /\ nested_list_index' =
           [nested_list_index EXCEPT ![InnerSetting(SettingOf(frame[t].item))] =
                                         PyInt(frame[t].index)]
    /\ frame' = [frame EXCEPT ![t].pc = "get"]
    /\ UNCHANGED <<environ, conf, overrides, live, cache, required, dflt, validators,
                   hook, res>>

\* return_value.append(self.inner_setting.get_value()); an exception of
\* the inner setting ends the read
InnerGetValue(t) ==
    /\ frame[t].pc = "get"
    /\ LET d == SettingOf(frame[t].item)
           r == get_value(InnerSetting(d), nested_list_index)
       IN  /\ nested_list_index' = r.idx
           /\ IF r.out.st = "raise"
              THEN /\ frame' = [frame EXCEPT ![t] = Idle]
                   /\ res' = Did("read", t, frame[t].item, r.out,
                                 << [ev |-> "get_value", d |-> d] >>)
              ELSE /\ frame' = [frame EXCEPT
                                   ![t].pc = "for",
                                   ![t].index = @ + 1,
                                   ![t].return_value = Append(@, r.out.val)]
                   /\ UNCHANGED res
    /\ UNCHANGED <<environ, conf, overrides, live, cache, required, dflt, validators,
                   hook>>

\* return tuple(return_value), and the assignment to _cache of __getattr__
ReturnTuple(t) ==
    /\ frame[t].pc = "for"
    /\ frame[t].index = Len(frame[t].value)
    /\ LET r == GetAttrStore(cache[t], frame[t].item,
                             Result(Ok(PyTuple(frame[t].return_value)),
                                    nested_list_index))
       IN  /\ cache' = [cache EXCEPT ![t] = r.cache]
           /\ res' = Did("read", t, frame[t].item, r.out, r.log)
    /\ frame' = [frame EXCEPT ![t] = Idle]
    /\ UNCHANGED <<environ, conf, overrides, live, nested_list_index, required, dflt,
                   validators, hook>>

NextThreads ==
    \/ \E t \in Threads : \E item \in ThreadItems : BeginRead(t, item)
    \/ \E t \in Threads : SetIndex(t)
    \/ \E t \in Threads : InnerGetValue(t)
    \/ \E t \in Threads : ReturnTuple(t)

SpecThreads == InitThreads /\ [][NextThreads]_vars

-----------------------------------------------------------------------------
(* The classes: what _Metaclass.__new__ makes of a class body, and what    *)
(* AppSettings.__init__ and AppSettings.check do on the base class and on  *)
(* a subclass.                                                             *)

\* Setting(name=name, prefix=prefix) as an attribute of a class body
SettingObject(name, prefix) == [t |-> "setting", name |-> name, prefix |-> prefix]

\* class Meta: setting_prefix = ...
MetaClass(setting_prefix) == [t |-> "class", setting_prefix |-> setting_prefix]

MetaName == <<"M", "e", "t", "a">>

\* dct.pop("Meta", type("Meta", (), {"setting_prefix": ""})): the class
\* popped, and what is left of dct
PopMeta(dct) ==
    IF \E k \in DOMAIN dct : dct[k][1] = MetaName
    THEN dct[CHOOSE k \in DOMAIN dct : dct[k][1] = MetaName][2]
    ELSE MetaClass(<<>>)

RECURSIVE WithoutMeta(_)
WithoutMeta(dct) ==
    IF dct = <<>> THEN <<>>
    ELSE IF Head(dct)[1] = MetaName THEN WithoutMeta(Tail(dct))
    ELSE <<Head(dct)>> \o WithoutMeta(Tail(dct))

\* dict[key] = value on a dict kept as the sequence of its items
RECURSIVE SetItem(_, _, _)
SetItem(dict, key, value) ==
    IF dict = <<>> THEN << <<key, value>> >>
    ELSE IF Head(dict)[1] = key THEN << <<key, value>> >> \o Tail(dict)
    ELSE <<Head(dict)>> \o SetItem(Tail(dict), key, value)

\* the population of a setting that gives every setting the group's prefix
PopulateSetting_group_prefix(name, setting, setting_prefix) ==
    [name |-> IF setting.name = <<>> THEN name ELSE setting.name,
     prefix |-> setting_prefix,
     t |-> "setting"]

\* "populate name" and "populate prefix" of _Metaclass.__new__
PopulateSetting(name, setting, setting_prefix) ==
    [name |-> IF setting.name = <<>> THEN name ELSE setting.name,
     prefix |-> IF setting.prefix = <<>> THEN setting_prefix ELSE setting.prefix,
     t |-> "setting"]

\* the loop of _Metaclass.__new__ over dct.items()
RECURSIVE MetaclassItems(_, _, _, _, _)
MetaclassItems(items, k, setting_prefix, registry, new_attr) ==
    IF k > Len(items) THEN [settings |-> registry, new_attr |-> new_attr]
    ELSE IF items[k][2].t = "setting"
    THEN MetaclassItems(items, k + 1, setting_prefix,
             SetItem(registry, items[k][1],
                     PopulateSetting(items[k][1], items[k][2], setting_prefix)),
             new_attr)
    ELSE MetaclassItems(items, k + 1, setting_prefix, registry,
                        SetItem(new_attr, items[k][1], items[k][2]))

\* _Metaclass.__new__: the attributes of the class made from the bases and
\* the class body dct
MetaclassNew(bases, dct) ==
    IF bases = <<>> THEN dct
    ELSE LET r == MetaclassItems(WithoutMeta(dct), 1, PopMeta(dct).setting_prefix,
                                 <<>>, <<>>)
             meta == [t |-> "meta", setting_prefix |-> PopMeta(dct).setting_prefix,
                      settings |-> r.settings]
         IN  SetItem(SetItem(r.new_attr, <<"_", "m", "e", "t", "a">>, meta),
                     <<"s", "e", "t", "t", "i", "n", "g", "s">>, r.settings)

\* the class of the model, as its class body says it
ModelBody ==
    [k \in DOMAIN ClassBody |->
        <<ClassBody[k][1], SettingObject(ArgName(ClassBody[k][2]), <<>>)>>]
    \o << <<MetaName, MetaClass(SettingPrefix)>> >>

\* the class body of AppSettings itself
BaseBody == << <<<<"O", "S">>, PyStr(OS_ENVIRON_OVERRIDE_PREFIX)>> >>

\* the name of the k-th attribute of a class body: a, b, ...
AttrName(k) == <<LowerAlpha[k]>>

AttrValues ==
    {SettingObject(name, prefix) : name \in {<<>>, <<"n">>}, prefix \in {<<>>, <<"d">>}}
    \cup {PyInt(1)}

\* class bodies of at most MaxAttrs attributes, with a Meta that has a
\* prefix, with one that has the empty prefix, or without
ClassBodies ==
    {ModelBody}
    \cup {[k \in DOMAIN values |-> <<AttrName(k), values[k]>>] \o meta :
            values \in UNION {[1..n -> AttrValues] : n \in 0..MaxAttrs},
            meta \in {<<>>, << <<MetaName, MetaClass(<<>>)>> >>,
                      << <<MetaName, MetaClass(<<"p">>)>> >>}}

\* the base class and the subclass of the model
Classes == {"AppSettings", "AppConf"}

\* AppSettings.__init__ that connects the handlers before it tests the class
AppSettingsInit_connect_first(cls, i) ==
    [out |-> IF cls = "AppSettings"
             THEN Raise("RuntimeError", [fmt |-> "do_not_use_as_itself"])
             ELSE Ok(None),
     live |-> live \cup {i},
     cache |-> (i :> <<>>) @@ cache]

\* AppSettings.__init__ of the i-th instance, of class cls: what it raises
\* or returns, the receivers of setting_changed and the caches afterwards
AppSettingsInit(cls, i) ==
    IF cls = "AppSettings"
    THEN [out |-> Raise("RuntimeError", [fmt |-> "do_not_use_as_itself"]),
          live |-> live, cache |-> cache]
    ELSE [out |-> Ok(None), live |-> live \cup {i}, cache |-> (i :> <<>>) @@ cache]

\* AppSettings.check without the test for the base class
ClassCheck_every_class(cls, idx) == AppSettingsCheck(idx)

\* cls.check()
ClassCheck(cls, idx) ==
    IF cls = "AppSettings" THEN Checked(Ok(None), idx, <<>>)
    ELSE AppSettingsCheck(idx)

OnClass(op, cls, arg, out, log) ==
    [op |-> op, cls |-> cls, arg |-> arg, out |-> out, log |-> log]

\* class C(*bases): <dct>
DefineClass(bases, dct) ==
    /\ res' = OnClass("class", bases, dct, Ok(MetaclassNew(bases, dct)), <<>>)
    /\ UNCHANGED <<environ, conf, overrides, live, cache, nested_list_index>>
    /\ unchangedDescriptors

\* cls(): the instance would be the next in the order of creation
Instantiate(cls) ==
    /\ cls # "AppSettings" => Cardinality(live) < MaxInstances
    /\ LET i == Cardinality(live) + 1
           r == AppSettingsInit(cls, i)
       IN  /\ live' = r.live
           /\ cache' = r.cache
           /\ res' = OnClass("__init__", cls, i, r.out, <<>>)
    /\ UNCHANGED <<environ, conf, overrides, nested_list_index>>
    /\ unchangedDescriptors

\* cls.check()
CheckClass(cls) ==
    /\ LET r == ClassCheck(cls, nested_list_index)
       IN  /\ res' = OnClass("check", cls, <<>>, r.out, r.log)
           /\ nested_list_index' = r.idx
    /\ UNCHANGED <<environ, conf, overrides, live, cache>>
    /\ unchangedDescriptors

\* no environment, an empty store, and s required or not
InitClass ==
    /\ InitSources
    /\ conf = <<>>
    /\ required \in RequiredSets({"s"})
    /\ dflt = ConstructedDefault
    /\ validators = ConstructedValidators
    /\ hook = ConstructedHook

NextClass ==
    \/ DefineClass(<<>>, BaseBody)
    \/ \E dct \in ClassBodies : DefineClass(<<"AppSettings">>, dct)
    \/ \E cls \in Classes : Instantiate(cls)
    \/ \E cls \in Classes : CheckClass(cls)

SpecClass == InitClass /\ [][NextClass]_vars


\* the last call was op on a descriptor whose raw lookup found nothing
Missed(op) ==
    /\ res.op = op
    /\ raw_value(res.d, nested_list_index).st = "raise"
    /\ raw_value(res.d, nested_list_index).exc \in NotFound

\* the last call was op on a descriptor whose raw lookup found a value
Found(op) ==
    /\ res.op = op
    /\ raw_value(res.d, nested_list_index).st = "ok"

\* C3: for every class of descriptor, when no raw value is found and the
\* descriptor is not required, get_value() returns default() if default is
\* callable and call_default is true and default itself otherwise, passed
\* through transform() exactly when transform_default is true.
C3_DefaultReturned ==
    (Missed("get_value") /\ ~required[res.d]) =>
        LET c == dflt[res.d]
            value == IF c.default.t = "callable" /\ c.call_default
                     THEN c.default.ret ELSE c.default
        IN  res.out = IF c.transform_default THEN transform(res.d, value) ELSE Ok(value)

\* a FileSetting without raw value returned the path made of what its
\* callable default returned
C3_Witness ==
    /\ Missed("get_value") /\ res.d = "f" /\ ~required["f"]
    /\ dflt["f"] = [default |-> Callable(PyStr(<<"x">>)), call_default |-> TRUE,
                    transform_default |-> TRUE]
    /\ res.out = Ok(PyPath(<<"x">>))

StoredTopLevel ==
    /\ res.op = "get_value"
    /\ Parent(res.d) = NoDesc
    /\ full_name(res.d) \notin DOMAIN environ
    /\ full_name(res.d) \in DOMAIN conf

IsTopLevelCheck(e) == e.ev = "check" /\ e.d \in TopLevel

\* what check() does on each setting of the registry, in its order
RegistryChecks == [k \in DOMAIN settings |-> check(settings[k][2], nested_list_index).out]

Raised(o) == o.st = "raise"

\* C6: AppSettings.check() of a subclass calls check() on every registered
\* descriptor, in the order of the registry and also after an earlier one
\* has raised ImproperlyConfigured; it then raises one ImproperlyConfigured
\* whose message is made of the messages of exactly the failing
\* descriptors, and returns None when none fails.
C6_GroupCheckAggregates ==
    (/\ res.op = "AppSettings.check"
     /\ \A k \in DOMAIN settings :
            Raised(RegistryChecks[k]) => RegistryChecks[k].exc = "ImproperlyConfigured") =>
        LET checks == SelectSeq(res.log, IsTopLevelCheck)
            failed == SelectSeq(RegistryChecks, Raised)
        IN  /\ [k \in DOMAIN checks |-> checks[k].d] = [k \in DOMAIN settings |-> settings[k][2]]
            /\ failed = <<>> => res.out = Ok(None)
            /\ failed # <<>> =>
                   res.out = Raise("ImproperlyConfigured",
                                   [fmt |-> "joined",
                                    lines |-> [k \in DOMAIN failed |-> failed[k].msg]])

\* the group check reported two failing settings, the first setting of the
\* registry among them, after the last setting of the registry had passed
C6_Witness ==
    /\ res.op = "AppSettings.check"
    /\ res.out.st = "raise"
    /\ Len(res.out.msg.lines) = 2
    /\ Raised(RegistryChecks[1])
    /\ ~Raised(RegistryChecks[Len(settings)])

\* the calls of validators the last operation made for its descriptor
IsValidatorCall(e) == e.ev = "validator" /\ e.d = res.d

\* the value check() validates
RawOfChecked == raw_value(res.d, nested_list_index).val

\* what each validator of the checked descriptor does on its raw value
ValidatorOutcomes ==
    [k \in DOMAIN validators[res.d] |-> CallValidator(validators[res.d][k], RawOfChecked)]

\* the messages of the failing validators, in list order
FailingMessages ==
    LET failed == SelectSeq(ValidatorOutcomes, Raised)
    IN  [k \in DOMAIN failed |-> failed[k].msg[1]]

\* every validator was called once, in list order, with the raw value
AllValidatorsCalled ==
    SelectSeq(res.log, IsValidatorCall) =
        [k \in DOMAIN validators[res.d] |->
            [ev |-> "validator", d |-> res.d, k |-> k, arg |-> RawOfChecked]]

Invalid(d, errors) ==
    Raise("ImproperlyConfigured",
          [fmt |-> "invalid_value", name |-> full_name(d), errors |-> errors])

Composite(d) == Cls(d) \in NestedDictClasses \cup {"NestedListSetting"}

\* C7 as stated: check() of any descriptor with a raw value calls every
\* validator once and raises exactly for the failing ones.
C7_AsStated ==
    Found("check") =>
        /\ AllValidatorsCalled
        /\ FailingMessages # <<>> => res.out = Invalid(res.d, FailingMessages)
        /\ FailingMessages = <<>> => res.out = Ok(None)

\* C7: on check() of a descriptor whose raw value is present and whose
\* validate() hook passes, every validator of the list is called once
\* with that value, in list order, also after an earlier one has failed;
\* one ImproperlyConfigured is raised with the messages of exactly the
\* failing validators, and a descriptor that is no composite raises
\* nothing when all pass.
C7_ValidatorsAggregated ==
    (Found("check") /\ validate(res.d, RawOfChecked, nested_list_index).st = "ok") =>
        /\ AllValidatorsCalled
        /\ FailingMessages # <<>> => res.out = Invalid(res.d, FailingMessages)
        /\ (FailingMessages = <<>> /\ ~Composite(res.d)) => res.out = Ok(None)

\* two validators were called, the first failed and the second passed
C7_Witness ==
    /\ Found("check") /\ res.d = "v"
    /\ hook["v"] = "Setting.validate"
    /\ Len(validators["v"]) = 2
    /\ Raised(ValidatorOutcomes[1]) /\ ~Raised(ValidatorOutcomes[2])
    /\ Len(SelectSeq(res.log, IsValidatorCall)) = 2
    /\ res.out.st = "raise" /\ Len(res.out.msg.errors) = 1

\* C8 as stated: when validate() fails, the validators are still evaluated
\* and the error holds the hook's message and theirs.
C8_AsStated ==
    (Found("check") /\ Raised(validate(res.d, RawOfChecked, nested_list_index))) =>
        /\ AllValidatorsCalled
        /\ res.out = Invalid(res.d, validate(res.d, RawOfChecked, nested_list_index).msg \o FailingMessages)

\* C8: when the validate() hook of a descriptor fails, check() raises one
\* ImproperlyConfigured that holds the hook's message alone, and no
\* validator of the list is called.
C8_HookFailureAlone ==
    (Found("check") /\ Raised(validate(res.d, RawOfChecked, nested_list_index))) =>
        /\ SelectSeq(res.log, IsValidatorCall) = <<>>
        /\ res.out = Invalid(res.d, validate(res.d, RawOfChecked, nested_list_index).msg)

\* validate() failed on a value that a validator of the list rejects too
C8_Witness ==
    /\ Found("check") /\ res.d = "v"
    /\ hook["v"] = "TestSetting.validate"
    /\ FailingMessages # <<>>
    /\ res.out.st = "raise" /\ Len(res.out.msg.errors) = 1

\* the messages an error raised by the last operation is made of
PartsOf(out) ==
    IF out.st # "raise" THEN {}
    ELSE IF out.exc = "ValidationError" THEN Range(out.msg)
    ELSE {out.msg}

\* the last operation's error holds the failure o of a child or position
Reports(o) ==
    \/ o.msg \in PartsOf(res.out)
    \/ o.msg.fmt = "invalid_value" /\ Range(o.msg.errors) \subseteq PartsOf(res.out)

IsChildCheck(e) == e.ev = "check" /\ Parent(e.d) = res.d

\* C9 as stated: check() of a nested-dict composite whose raw value is a
\* dict, and which is valid itself, runs check() on every child, also
\* after a child has failed, and its error reports every failing child;
\* with the raw value absent or None no child is checked.
C9_AsStated ==
    (res.op = "check" /\ Cls(res.d) \in NestedDictClasses) =>
        LET rv == raw_value(res.d, nested_list_index)
            children == [k \in DOMAIN SubSettings(res.d) |-> SubSettings(res.d)[k][2]]
            checked == SelectSeq(res.log, IsChildCheck)
        IN  /\ (rv.st = "raise" \/ rv.val = None) => checked = <<>>
            /\ (/\ rv.st = "ok" /\ IsInstance(rv.val, "dict")
                /\ SettingCheck(res.d, nested_list_index).out.st = "ok") =>
                   /\ [k \in DOMAIN checked |-> checked[k].d] = children
                   /\ \A k \in DOMAIN children :
                          Raised(check(children[k], nested_list_index).out) =>
                              Reports(check(children[k], nested_list_index).out)

IsPositionCheck(e) == e.ev = "check" /\ e.d = InnerSetting(res.d)

AtPosition(k) == [nested_list_index EXCEPT ![InnerSetting(res.d)] = PyInt(k)]

\* C10 as stated: check() of a nested-list composite whose raw value is a
\* sequence, and which is valid itself, runs the inner descriptor's
\* check() at every position, also after a position has failed, and its
\* error reports every failing position.
C10_AsStated ==
    (res.op = "check" /\ Cls(res.d) = "NestedListSetting") =>
        LET rv == raw_value(res.d, nested_list_index)
            checked == SelectSeq(res.log, IsPositionCheck)
        IN  (/\ rv.st = "ok"
             /\ IsInstance(rv.val, "list") \/ IsInstance(rv.val, "tuple")
             /\ SettingCheck(res.d, nested_list_index).out.st = "ok") =>
                /\ [k \in DOMAIN checked |-> checked[k].index] =
                       [k \in DOMAIN Iter(rv.val).val |-> PyInt(k - 1)]
                /\ \A k \in DOMAIN Iter(rv.val).val :
                       Raised(check(InnerSetting(res.d), AtPosition(k - 1)).out) =>
                           Reports(check(InnerSetting(res.d), AtPosition(k - 1)).out)

\* C1: a read of a setting that is in the cache of the instance returns
\* the cached value without calling get_value() and leaves the cache as it
\* is; invalidate_cache() leaves the instance's cache without any entry;
\* a read of a setting that is not in the cache calls get_value() once
\* and, when it returns, stores its value under the item.
C1_CachedReads ==
    [][/\ (res'.op = "read" /\ res'.item \in DOMAIN cache[res'.inst]) =>
              /\ res'.out = Ok(cache[res'.inst][res'.item])
              /\ res'.log = <<>>
              /\ cache' = cache
       /\ res'.op = "invalidate_cache" => cache'[res'.inst] = <<>>
       /\ (res'.op = "read" /\ res'.item \in Items
             /\ res'.item \notin DOMAIN cache[res'.inst]) =>
              /\ res'.log = << [ev |-> "get_value", d |-> SettingOf(res'.item)] >>
              /\ res'.out = get_value(SettingOf(res'.item), nested_list_index).out
              /\ res'.out.st = "ok" =>
                     cache' = [cache EXCEPT ![res'.inst] =
                                  (res'.item :> res'.out.val) @@ cache[res'.inst]]]_vars

\* a read was served from the cache
C1_Witness ==
    /\ res.op = "read"
    /\ res.item \in DOMAIN cache[res.inst]
    /\ res.log = <<>>
    /\ res.out = Ok(cache[res.inst][res.item])

\* the innermost override in effect
Innermost == overrides[Len(overrides)]

\* after a notification the cache of every live instance is empty
CachesEmptied ==
    res.op \in {"enter", "exit"} => \A i \in live : cache[i] = <<>>

\* C2 as stated: after the delivery of a notification for any key,
\* entering or exiting, the cache of every live instance is empty; and a
\* read of a setting of class Setting, on an instance that received the
\* entering notification of the innermost override in effect, of the key
\* of that setting, returns the value of that override.
C2_AsStated ==
    /\ CachesEmptied
    /\ (/\ res.op = "read" /\ res.item \in Items
        /\ Cls(SettingOf(res.item)) = "Setting"
        /\ overrides # <<>>
        /\ Innermost.key = full_name(SettingOf(res.item))
        /\ res.inst \in Innermost.receivers) =>
           res.out = Ok(Innermost.value)

\* what a child c of a nested dict whose raw value is the dict container
\* is to give: its transformed item, or its default when it has no item
ChildValue(c, container) ==
    IF full_name(c) \in DOMAIN container.d
    THEN transform(c, container.d[full_name(c)])
    ELSE IF required[c]
    THEN Raise("ImproperlyConfigured",
               [fmt |-> "missing_required_item", name |-> full_name(Parent(c)),
                err |-> [fmt |-> "key", item |-> full_name(c)]])
    ELSE LET value == IF dflt[c].default.t = "callable" /\ dflt[c].call_default
                      THEN dflt[c].default.ret ELSE dflt[c].default
         IN  IF dflt[c].transform_default THEN transform(c, value) ELSE Ok(value)

\* the children of the descriptor of the last call, in declaration order
ChildrenValues(container) ==
    [k \in DOMAIN SubSettings(res.d) |-> ChildValue(SubSettings(res.d)[k][2], container)]

\* the default of a child: default() when callable and call_default
ChildDefault(c) ==
    IF dflt[c].default.t = "callable" /\ dflt[c].call_default
    THEN dflt[c].default.ret ELSE dflt[c].default

\* C11 as stated: when the raw lookup of a nested dict gives a dict,
\* get_value() returns a dict with one entry per declared child, a child
\* whose item is absent giving its own default.
C11_AsStated ==
    (res.op = "get_value" /\ Cls(res.d) \in NestedDictClasses
       /\ Found("get_value") /\ IsInstance(RawOfChecked, "dict")) =>
        /\ res.out.st = "ok" /\ res.out.val.t = "dict"
        /\ DOMAIN res.out.val.d =
               {SubSettings(res.d)[k][1] : k \in DOMAIN SubSettings(res.d)}
        /\ \A k \in DOMAIN SubSettings(res.d) :
               LET c == SubSettings(res.d)[k][2]
               IN  full_name(c) \notin DOMAIN RawOfChecked.d =>
                       res.out.val.d[SubSettings(res.d)[k][1]] \in
                           {ChildDefault(c), transform(c, ChildDefault(c)).val}

\* C11: get_value() of a nested dict that is not required and whose raw
\* lookup fails returns its default; when the raw lookup gives a dict, it
\* returns a dict with one entry per declared child under the child's
\* declaration key: the transformed item upper(name) of the raw dict when
\* present, the default of a child that is not required when absent;
\* items of no child are left out; when a required child has no item,
\* get_value() raises the ImproperlyConfigured of the first such child.
C11_NestedDictValue ==
    (res.op = "get_value" /\ Cls(res.d) \in NestedDictClasses) =>
        /\ (Missed("get_value") /\ ~required[res.d]) =>
               res.out = IF dflt[res.d].transform_default
                         THEN transform(res.d, default_value(res.d))
                         ELSE Ok(default_value(res.d))
        /\ (Found("get_value") /\ IsInstance(RawOfChecked, "dict")) =>
               LET values == ChildrenValues(RawOfChecked)
                   failed == SelectSeq(values, Raised)
               IN  /\ failed # <<>> => res.out = failed[1]
                   /\ failed = <<>> =>
                          /\ res.out.st = "ok" /\ res.out.val.t = "dict"
                          /\ DOMAIN res.out.val.d =
                                 {SubSettings(res.d)[k][1] : k \in DOMAIN SubSettings(res.d)}
                          /\ \A k \in DOMAIN SubSettings(res.d) :
                                 res.out.val.d[SubSettings(res.d)[k][1]] = values[k].val

\* a nested dict whose raw dict holds the item of child a and an item of
\* no child, and lacks the item of child b, gave a's item and b's default
C11_Witness ==
    /\ Found("get_value") /\ res.d = "nd"
    /\ IsInstance(RawOfChecked, "dict")
    /\ DOMAIN RawOfChecked.d = {KeyA, KeyZ}
    /\ res.out.st = "ok"
    /\ res.out.val.d[<<"a">>] = RawOfChecked.d[KeyA]
    /\ res.out.val.d[<<"b">>] = PyBool(TRUE)

IsSequence(value) == value.t \in {"list", "tuple"}

\* what get_value() of the nested list d is to give for the raw sequence
\* r: the tuple of the inner setting's transformed items, a nested list
\* as inner setting giving such a tuple for each item
RECURSIVE TupleOf(_, _)
TupleOf(d, r) ==
    LET inner == InnerSetting(d)
        each == [k \in DOMAIN r.items |->
                    IF Cls(inner) = "NestedListSetting"
                    THEN IF IsSequence(r.items[k]) THEN TupleOf(inner, r.items[k])
                         ELSE TypeError
                    ELSE transform(inner, r.items[k])]
        failed == SelectSeq(each, Raised)
    IN  IF failed # <<>> THEN failed[1]
        ELSE Ok(PyTuple([k \in DOMAIN each |-> each[k].val]))

\* C12: get_value() of a nested list whose raw value is a sequence r
\* returns a tuple as long as r whose item at each position is the inner
\* setting's transform of the item of r at that position, in the order of
\* r and with its duplicates, and again a tuple of that kind when the
\* inner setting is a nested list; a transform that raises makes
\* get_value() raise the same.
C12_NestedListValue ==
    (Found("get_value") /\ Cls(res.d) = "NestedListSetting"
       /\ IsSequence(RawOfChecked)) =>
        /\ res.out = TupleOf(res.d, RawOfChecked)
        /\ res.out.st = "ok" =>
               /\ res.out.val.t = "tuple"
               /\ Len(res.out.val.items) = Len(RawOfChecked.items)

\* a list of two lists, the first with the same string twice, gave the
\* tuple of the tuples of their paths
C12_Witness ==
    /\ Found("get_value") /\ res.d = "ll"
    /\ RawOfChecked = PyList(<<PyList(<<PyStr(<<"x">>), PyStr(<<"x">>)>>),
                              PyList(<<PyStr(<<"x">>)>>)>>)
    /\ res.out = Ok(PyTuple(<<PyTuple(<<PyPath(<<"x">>), PyPath(<<"x">>)>>),
                              PyTuple(<<PyPath(<<"x">>)>>)>>))

\* C13 as stated: an ImproperlyConfigured raised by check() or get_value()
\* of a descriptor names a setting by a full name that is not empty: the
\* upper-case prefix and name of the descriptor itself or of one it holds
\* or is held by.
C13_AsStated ==
    (/\ res.op \in {"check", "get_value"}
     /\ res.out.st = "raise" /\ res.out.exc = "ImproperlyConfigured") =>
        /\ res.out.msg.name # <<>>
        /\ \E e \in Desc : /\ Root(e) = Root(res.d)
                           /\ res.out.msg.name = Upper(Prefix(e)) \o Upper(Name(e))

Owned(d) == Parent(d) # NoDesc

\* the composites through which d reads its raw value
RECURSIVE Owners(_)
Owners(d) == IF Parent(d) = NoDesc THEN {} ELSE {Parent(d)} \cup Owners(Parent(d))

\* f without its entry under key
Hide(f, key) == [k \in DOMAIN f \ {key} |-> f[k]]

\* a step that changes os.environ or the primary store under key only
OnlyEntryChanged(key) ==
    /\ environ' # environ \/ conf' # conf
    /\ Hide(environ', key) = Hide(environ, key)
    /\ Hide(conf', key) = Hide(conf, key)
    /\ UNCHANGED <<nested_list_index, required, dflt, validators, hook>>

\* what the descriptor gives is the same after the step as before it
SameAnswers(d) ==
    /\ raw_value(d, nested_list_index)' = raw_value(d, nested_list_index)
    /\ get_value(d, nested_list_index)' = get_value(d, nested_list_index)
    /\ check(d, nested_list_index)' = check(d, nested_list_index)

\* the item of the owning composite's raw value that the claim names
ItemOfOwner(d) ==
    LET pr == raw_value(Parent(d), nested_list_index)
    IN  IF pr.st = "raise" THEN pr
        ELSE IF Cls(Parent(d)) \in NestedDictClasses
        THEN GetItem(pr.val, Upper(Prefix(d)) \o Upper(Name(d)))
        ELSE GetIndex(pr.val, nested_list_index[d])

\* C14 as stated: an entry of os.environ or of the primary store under the
\* full name of a descriptor that a composite owns never changes the
\* descriptor's raw_value, get_value() or check().
C14_AsStated ==
    [][\A d \in Desc : (Owned(d) /\ OnlyEntryChanged(full_name(d))) => SameAnswers(d)]_vars

\* C14: the raw value of a descriptor that a composite owns is the item of
\* the composite's raw value (by full name in a nested dict, by
\* nested_list_index in a nested list), and an entry of os.environ or of the
\* primary store under the descriptor's own full name changes none of its
\* raw_value, get_value() and check(), unless that name is also the full
\* name of a composite it reads through.
C14_OwnedReadsItsComposite ==
    /\ [](res.op = "raw_value" /\ Owned(res.d) => res.out = ItemOfOwner(res.d))
    /\ [][\A d \in Desc :
            (/\ Owned(d)
             /\ full_name(d) \notin {full_name(e) : e \in Owners(d)}
             /\ OnlyEntryChanged(full_name(d))) => SameAnswers(d)]_vars

\* a child of the nested dict read from the dict's item while os.environ and
\* the primary store hold other values under the child's own full name
C14_Witness ==
    /\ res.op = "get_value" /\ res.d = "a"
    /\ full_name("a") \in DOMAIN environ
    /\ full_name("a") \in DOMAIN conf
    /\ full_name("nd") \in DOMAIN conf
    /\ res.out = Ok(PyBool(FALSE))
    /\ decode_environ("a", environ[full_name("a")]) = Ok(PyBool(TRUE))

\* C15: the raw value of a descriptor that no composite owns is the decoded
\* os.environ entry under its full name whenever there is one, also when the
\* primary store has a value under that name; it is the primary store's
\* value only when os.environ has no such entry, and AttributeError is
\* raised when neither has one.
C15_EnvironBeforeStore ==
    (res.op = "raw_value" /\ ~Owned(res.d)) =>
        LET key == Upper(Prefix(res.d)) \o Upper(Name(res.d))
        IN  IF key \in DOMAIN environ
            THEN res.out = decode_environ(res.d, environ[key])
            ELSE IF key \in DOMAIN conf
            THEN res.out = Ok(conf[key])
            ELSE res.out.st = "raise" /\ res.out.exc = "AttributeError"

\* s read while os.environ says "1" and the primary store says 0
C15_Witness ==
    /\ res.op = "raw_value" /\ res.d = "s"
    /\ full_name("s") \in DOMAIN environ
    /\ full_name("s") \in DOMAIN conf
    /\ conf[full_name("s")] = PyInt(0)
    /\ res.out = Ok(PyInt(1))

\* the overrides in effect whose key is the full name of a setting of the
\* group and whose entering notification a live instance received
ShadowingOverrides ==
    {k \in DOMAIN overrides :
        /\ overrides[k].receivers \cap live # {}
        /\ \E d \in TopLevel : Upper(Prefix(d)) \o Upper(Name(d)) = overrides[k].key}

\* C16 as stated: while an override of the full name of a setting is in
\* effect for a live instance, also below a nested override of the same
\* key, that name is not a key of os.environ, and a read of the setting
\* returns the transformed value of the primary store.
C16_AsStated ==
    /\ \A k \in ShadowingOverrides : overrides[k].key \notin DOMAIN environ
    /\ (/\ res.op = "read" /\ res.item \in Items
        /\ \E k \in ShadowingOverrides :
              /\ overrides[k].key = full_name(SettingOf(res.item))
              /\ res.inst \in overrides[k].receivers) =>
           res.out = transform(SettingOf(res.item), conf[full_name(SettingOf(res.item))])

\* the segments of the dotted path that the last call found in the store
PathOfChecked == Split(RawOfChecked.s, ".")

\* the lengths of the prefixes of the path that are importable modules
ImportablePrefixes ==
    {n \in 1..Len(PathOfChecked) : SubSeq(PathOfChecked, 1, n) \in Modules}

LongestPrefix == CHOOSE n \in ImportablePrefixes : \A k \in ImportablePrefixes : k <= n

\* the object reached from the module at the first n segments by taking
\* the segments after it as attributes, each being an attribute
RECURSIVE Walk(_, _)
Walk(path, n) ==
    IF n = Len(path) THEN Ok(PyObject(path))
    ELSE IF SubSeq(path, 1, n + 1) \in Modules \cup Attributes
    THEN Walk(path, n + 1)
    ELSE Raise("AttributeError", [fmt |-> "has_no_attribute", attr |-> path[n + 1]])

\* the last call was op on a setting that holds a dotted path
OnPath(op) == Found(op) /\ Cls(res.d) \in {"ObjectSetting", "CallablePathSetting"}

\* C17 as stated: check() of an ObjectSetting or a CallablePathSetting never
\* lets ImportError or AttributeError escape; when resolving the path fails
\* with one of them inside CallablePathSetting.validate, check() raises
\* ImproperlyConfigured naming the setting.
C17_AsStated ==
    OnPath("check") =>
        /\ ~(res.out.st = "raise" /\ res.out.exc \in {"ImportError", "AttributeError"})
        /\ (/\ Cls(res.d) = "CallablePathSetting"
            /\ ObjectSettingTransform(RawOfChecked).st = "raise"
            /\ ObjectSettingTransform(RawOfChecked).exc \in {"ImportError", "AttributeError"}) =>
               /\ res.out.st = "raise" /\ res.out.exc = "ImproperlyConfigured"
               /\ res.out.msg.name = Upper(Prefix(res.d)) \o Upper(Name(res.d))

\* C18 as stated: ObjectSetting.transform gives None for None and for the
\* empty string; for a dotted path of one or more segments it imports the
\* longest importable module prefix and takes the remaining segments as
\* attributes, returning the object reached (the module itself when the
\* whole path is a module); it raises ImportError when no prefix is
\* importable and AttributeError when a remaining segment is no attribute.
C18_AsStated ==
    (OnPath("get_value") /\ (RawOfChecked = None \/ RawOfChecked.t = "str")) =>
        IF RawOfChecked = None \/ RawOfChecked = PyStr(<<>>)
        THEN res.out = Ok(None)
        ELSE IF ImportablePrefixes = {}
        THEN res.out.st = "raise" /\ res.out.exc = "ImportError"
        ELSE res.out = Walk(PathOfChecked, LongestPrefix)

\* the prefix of the Meta of a class body, empty when it has no Meta
MetaPrefix(dct) ==
    IF \E k \in DOMAIN dct : dct[k][1] = MetaName
    THEN dct[CHOOSE k \in DOMAIN dct : dct[k][1] = MetaName][2].setting_prefix
    ELSE <<>>

IsSettingItem(item) == item[2].t = "setting"

IsOtherItem(item) == item[1] # MetaName /\ item[2].t # "setting"

\* the value of the class attribute name, of a class with attributes attrs
ClassAttr(attrs, name) == attrs[CHOOSE k \in DOMAIN attrs : attrs[k][1] = name][2]

HasClassAttr(attrs, name) == \E k \in DOMAIN attrs : attrs[k][1] = name

\* the registry of the class defined last
Registry == ClassAttr(res.out.val, <<"s", "e", "t", "t", "i", "n", "g", "s">>)

\* C19: the class made of a class body that subclasses AppSettings has in
\* its registry exactly the Setting instances of the body, under their
\* attribute names and in their order; each has the name it was given, or
\* the attribute name when it was given none, and the prefix it was given,
\* or Meta.setting_prefix when it was given none (the empty prefix without
\* Meta); its full name is upper(prefix) + upper(name); the attributes that
\* are no Setting are class attributes with their values, and the Setting
\* instances are not.  For the class body of the model, these are the names,
\* prefixes and full names the descriptors have.
C19_RegistryPopulated ==
    (res.op = "class" /\ res.cls # <<>>) =>
        LET dct == res.arg
            given == SelectSeq(dct, IsSettingItem)
            others == SelectSeq(dct, IsOtherItem)
        IN  /\ HasClassAttr(res.out.val, <<"s", "e", "t", "t", "i", "n", "g", "s">>)
            /\ Len(Registry) = Len(given)
            /\ \A k \in DOMAIN given :
                  /\ Registry[k][1] = given[k][1]
                  /\ Registry[k][2].name =
                        IF given[k][2].name = <<>> THEN given[k][1] ELSE given[k][2].name
                  /\ Registry[k][2].prefix =
                        IF given[k][2].prefix = <<>> THEN MetaPrefix(dct)
                        ELSE given[k][2].prefix
                  /\ ~HasClassAttr(res.out.val, given[k][1])
            /\ \A k \in DOMAIN others :
                  /\ HasClassAttr(res.out.val, others[k][1])
                  /\ ClassAttr(res.out.val, others[k][1]) = others[k][2]
            /\ ClassAttr(res.out.val, <<"_", "m", "e", "t", "a">>).settings = Registry
            /\ dct = ModelBody =>
                  /\ [k \in DOMAIN Registry |-> Registry[k][1]]
                        = [k \in DOMAIN settings |-> settings[k][1]]
                  /\ \A k \in DOMAIN Registry :
                        /\ Registry[k][2].name = Name(settings[k][2])
                        /\ Registry[k][2].prefix = Prefix(settings[k][2])
                        /\ Upper(Registry[k][2].prefix) \o Upper(Registry[k][2].name)
                              = full_name(settings[k][2])

\* class C(AppSettings): a = Setting(); b = Setting(name="n", prefix="d");
\* class Meta: setting_prefix = "p"
C19_Witness ==
    /\ res.op = "class" /\ res.cls # <<>>
    /\ res.arg = << <<<<"a">>, SettingObject(<<>>, <<>>)>>,
                    <<<<"b">>, SettingObject(<<"n">>, <<"d">>)>>,
                    <<MetaName, MetaClass(<<"p">>)>> >>
    /\ Registry = << <<<<"a">>, SettingObject(<<"a">>, <<"p">>)>>,
                     <<<<"b">>, SettingObject(<<"n">>, <<"d">>)>> >>

\* C20: AppSettings() raises RuntimeError and leaves the receivers of
\* setting_changed and the caches as they were; AppSettings.check() returns
\* None, calls no check and leaves every nested_list_index as it was; the
\* instantiation of a subclass returns, and the new instance is a receiver
\* with an empty cache.
C20_BaseClassRefuses ==
    [][/\ (res'.op = "__init__" /\ res'.cls = "AppSettings") =>
              /\ res'.out.st = "raise" /\ res'.out.exc = "RuntimeError"
              /\ UNCHANGED <<live, cache>>
       /\ (res'.op = "check" /\ "cls" \in DOMAIN res' /\ res'.cls = "AppSettings") =>
              /\ res'.out = Ok(None)
              /\ res'.log = <<>>
              /\ UNCHANGED nested_list_index
       /\ (res'.op = "__init__" /\ res'.cls = "AppConf") =>
              /\ res'.out = Ok(None)
              /\ res'.arg \notin live
              /\ live' = live \cup {res'.arg}
              /\ cache'[res'.arg] = <<>>
              /\ \A i \in live : cache'[i] = cache[i]]_vars

\* AppSettings() refused while an instance of the subclass is alive
C20_Witness ==
    /\ res.op = "__init__" /\ res.cls = "AppSettings"
    /\ res.out.st = "raise" /\ res.out.exc = "RuntimeError"
    /\ live = {1}
    /\ cache = (1 :> <<>>)

-----------------------------------------------------------------------------
(* Properties of the typed settings, under SpecTyped.                      *)

\* str equals word, ignoring case
EqualsIgnoringCase(str, word) ==
    /\ Len(str) = Len(word)
    /\ \A k \in DOMAIN word : SameLetter(str[k], word[k])

\* what a boolean setting d is to make of the environment string str
BooleanOf(d, str, out) ==
    IF \E word \in TrueWords : EqualsIgnoringCase(str, word)
    THEN out = Ok(PyBool(TRUE))
    ELSE IF \E word \in FalseWords : EqualsIgnoringCase(str, word)
    THEN out = Ok(PyBool(FALSE))
    ELSE /\ out.st = "raise"
         /\ out.exc = "ValueError"
         /\ out.msg.name = full_name(d)
         /\ full_name(d) # <<>>

C22_AsStated ==
    (/\ res.op = "check" /\ Cls(res.d) = "DictSetting"
     /\ raw_value(res.d, nested_list_index) = Ok(PyDict(<<>>))) =>
        /\ ArgEmpty(res.d) = PyBool(TRUE) => res.out.st = "ok"
        /\ ArgEmpty(res.d) = PyBool(FALSE) =>
               /\ res.out.st = "raise"
               /\ res.out.exc = "ImproperlyConfigured"

-----------------------------------------------------------------------------
(* The default and the raw value in check() and get_value(), under         *)
(* SpecDesc.                                                               *)

\* C23: the default is never validated. When the raw lookup of a
\* descriptor that is not required finds nothing, check() returns
\* normally and calls neither validate() nor a validator, and get_value()
\* returns the default (transformed when transform_default is set), also
\* when the validators of the descriptor reject it; get_value() calls
\* no validator, whatever it finds.
C23_DefaultNotValidated ==
    /\ (Missed("check") /\ ~required[res.d]) =>
           /\ res.out = Ok(None)
           /\ \A k \in DOMAIN res.log : res.log[k].ev \notin {"validate", "validator"}
    /\ (Missed("get_value") /\ ~required[res.d]) =>
           res.out = IF dflt[res.d].transform_default
                     THEN transform(res.d, default_value(res.d))
                     ELSE Ok(default_value(res.d))
    /\ res.op = "get_value" =>
           \A k \in DOMAIN res.log : res.log[k].ev \notin {"validate", "validator"}

\* a boolean without raw value passed check() with a default that its
\* validator rejects
C23_Witness ==
    /\ Missed("check") /\ ~required[res.d]
    /\ Cls(res.d) = "BooleanSetting"
    /\ run_validators(res.d, default_value(res.d)).out.st = "raise"
    /\ res.out = Ok(None)

\* the last call was op on a nested dict that is not required and has a
\* required child c
OnParentOfRequired(op, c) ==
    /\ res.op = op
    /\ Cls(res.d) \in NestedDictClasses
    /\ Parent(c) = res.d
    /\ required[c]
    /\ ~required[res.d]

\* the raw value of the nested dict is a dict
RawDict(d) ==
    /\ raw_value(d, nested_list_index).st = "ok"
    /\ raw_value(d, nested_list_index).val.t = "dict"

\* the error of a required item that the dict of d lacks
MissingRequiredItem(d, out) ==
    /\ out.st = "raise"
    /\ out.exc = "ImproperlyConfigured"
    /\ out.msg.fmt = "missing_required_item"
    /\ out.msg.name = full_name(d)

\* every item of the dict of d that a child of d reads passes the
\* validators of that child
ItemsValid(d) ==
    \A k \in DOMAIN SubSettings(d) :
        LET item == raw_value(SubSettings(d)[k][2], nested_list_index)
        IN  item.st = "ok" =>
                run_validators(SubSettings(d)[k][2], item.val).out.st = "ok"

\* the dict of d has the key of every required child of d
RequiredItemsPresent(d) ==
    \A k \in DOMAIN SubSettings(d) :
        required[SubSettings(d)[k][2]] =>
            full_name(SubSettings(d)[k][2])
                \in DOMAIN raw_value(d, nested_list_index).val.d

ValidationCalls(d, log) ==
    SelectSeq(log, LAMBDA e : e.d = d /\ e.ev \in {"validate", "validator"})

\* C25: check() passes the raw value, as raw_value returns it and before
\* any transform, to validate() and to every validator: on check() of a
\* descriptor whose raw lookup finds a value, validate() is called once,
\* first, and it and every validator called after it receive that value
\* itself, also when transform() would change it or fail on it.
C25_RawValueValidated ==
    Found("check") =>
        LET calls == ValidationCalls(res.d, res.log)
        IN  /\ calls # <<>>
            /\ calls[1].ev = "validate"
            /\ \A k \in DOMAIN calls :
                   /\ calls[k].arg = raw_value(res.d, nested_list_index).val
                   /\ k > 1 => calls[k].ev = "validator"

\* a FileSetting passed check() on a raw value on which get_value() raises
C25_Witness ==
    /\ Found("check") /\ res.d = "f"
    /\ raw_value("f", nested_list_index).val = PyInt(1)
    /\ res.out = Ok(None)
    /\ ValidationCalls("f", res.log) # <<>>
    /\ SettingGetValue("f", nested_list_index).out = TypeError

-----------------------------------------------------------------------------
(* Properties of the instances and of the handlers of setting_changed,     *)
(* under SpecEnviron and Spec.                                             *)

\* C26: no stale cached value is served. In every sequence of reads,
\* invalidate_cache() calls and overrides of the primary store, each of
\* them followed by its setting_changed notification, every read of a
\* setting on an instance gives what get_value() of the descriptor gives
\* on os.environ and the primary store as they are at the read.
C26_NoStaleRead ==
    [][(res'.op = "read" /\ res'.item \in Items) =>
          /\ res'.out = get_value(SettingOf(res'.item), nested_list_index).out
          /\ UNCHANGED <<environ, conf>>]_vars

\* inside an override of PS, a read of s on an instance that was alive
\* when the override was entered gave the value of the override, which
\* the store did not hold before
C26_Witness ==
    /\ res.op = "read" /\ res.item = <<"s">>
    /\ Len(overrides) = 1
    /\ Innermost.key = full_name("s")
    /\ res.inst \in Innermost.receivers
    /\ Innermost.wrapped = (full_name("s") :> PyInt(0))
    /\ Innermost.value = PyInt(2)
    /\ res.out = Ok(PyInt(2))

\* the full names of the settings of the group
GroupKeys == {full_name(settings[k][2]) : k \in DOMAIN settings}

\* C27 as stated: with one or more live instances, the delivery of an
\* entering notification for the full name K of a setting of the group,
\* followed by the delivery of the matching exiting notification, leaves
\* os.environ as it was before the entering notification, and after each
\* of the two deliveries K and __DAP_K are not both in os.environ.
C27_AsStated ==
    live # {} =>
        \A K \in GroupKeys :
            LET entered == SendSettingChanged(environ, live, K, TRUE)
                exited == SendSettingChanged(entered, live, K, FALSE)
            IN  /\ exited = environ
                /\ ~({K, OS_ENVIRON_OVERRIDE_PREFIX \o K} \subseteq DOMAIN entered)
                /\ ~({K, OS_ENVIRON_OVERRIDE_PREFIX \o K} \subseteq DOMAIN exited)

\* key and value of os.environ are the same before and after the step
SameEntry(key) ==
    /\ (key \in DOMAIN environ) = (key \in DOMAIN environ')
    /\ key \in DOMAIN environ => environ'[key] = environ[key]

\* C28: the delivery of a notification leaves os.environ as it is when
\* the notified key is not the full name of a top-level setting of the
\* group, when it is an entering one for a key that os.environ lacks, and
\* when it is an exiting one while os.environ lacks the __DAP_ key; and
\* it never changes an entry other than K and __DAP_K.
C28_EnvironFrame ==
    [][res'.op \in {"enter", "exit"} =>
          LET K == res'.item
          IN  /\ K \notin GroupKeys => environ' = environ
              /\ (res'.op = "enter" /\ K \notin DOMAIN environ) => environ' = environ
              /\ (/\ res'.op = "exit"
                  /\ (OS_ENVIRON_OVERRIDE_PREFIX \o K) \notin DOMAIN environ) =>
                     environ' = environ
              /\ \A key \in (DOMAIN environ \cup DOMAIN environ')
                                \ {K, OS_ENVIRON_OVERRIDE_PREFIX \o K} :
                     SameEntry(key)]_vars

\* an entering notification moved PS to __DAP_PS next to the variable Z
C28_Witness ==
    /\ res.op = "enter" /\ res.item = full_name("s")
    /\ live # {}
    /\ DOMAIN environ = {OS_ENVIRON_OVERRIDE_PREFIX \o full_name("s"), KeyZ}

\* C29: a read during which get_value() raises leaves the cache of the
\* instance as it was, so that it holds no entry for the item and a later
\* read of the item calls get_value() again; a read of a name that is no
\* setting of the group raises AttributeError, calls nothing and leaves
\* the cache as it was.
C29_FailedReadNotCached ==
    [][res'.op = "read" =>
          /\ res'.out.st = "raise" =>
                 /\ cache' = cache
                 /\ res'.item \notin DOMAIN cache'[res'.inst]
          /\ res'.item \notin Items =>
                 /\ res'.out.st = "raise"
                 /\ res'.out.exc = "AttributeError"
                 /\ res'.log = <<>>
          /\ (res'.item \in Items /\ res'.item \notin DOMAIN cache[res'.inst]) =>
                 res'.log = << [ev |-> "get_value", d |-> SettingOf(res'.item)] >>]_vars

\* a read of s raised for a string of os.environ that cannot be decoded,
\* on an instance whose cache holds another setting
C29_Witness ==
    /\ res.op = "read" /\ res.item = <<"s">>
    /\ res.out.st = "raise"
    /\ res.out.exc = "JSONDecodeError"
    /\ DOMAIN cache[res.inst] = {<<"n", "l">>}

-----------------------------------------------------------------------------
(* Property of the threads, under SpecThreads.                             *)

\* the raw value of the nested list the last read was of
RawOfRead == conf[full_name(SettingOf(res.item))]

\* C30 as stated: when every instance is used by one thread only, under
\* every interleaving of the threads' reads of the same nested list a
\* read whose raw value is a sequence returns the tuple of the
\* transformed items of the sequence in its order: the position one
\* thread wrote to nested_list_index is never used by another.
C30_AsStated ==
    (/\ res.op = "read" /\ res.item \in ThreadItems
     /\ full_name(SettingOf(res.item)) \in DOMAIN conf
     /\ IsSequence(RawOfRead)) =>
        res.out = TupleOf(SettingOf(res.item), RawOfRead)
====
